---- MODULE Spec2Model ----
(***************************************************************************)
(* Model of the chat moderation bot (src/main.py): the automoderation      *)
(* pipeline moderate_all with its in-memory spam state, the action         *)
(* dispatcher apply_action, the role model and the privileged commands.    *)
(*                                                                         *)
(* Scheduling: one asyncio event loop.  A handler runs without interruption*)
(* until it awaits a transport call (get_chat_member, delete, send,        *)
(* restrict, ban, ...); every such await is one step of the model.         *)
(* save_data() takes an uncontended asyncio.Lock and writes the file       *)
(* synchronously, so "await save_data()" never yields to the loop and is   *)
(* part of the step that calls it.  Any transport call may raise           *)
(* TelegramBadRequest (outcome "bad"), the failure the code itself expects.*)
(***************************************************************************)
EXTENDS Integers, Sequences, FiniteSets, TLC

\* ---------------------------------------------------------------- bounds
NumUsers == 2
NumSenders == 1
MaxMsgs == 3
MaxInFlight == 2
MaxCmds == 2
MaxWriters == 2

Chats == {1}
Users == 1..NumUsers
Senders == 1..NumSenders
Keys == Chats \X Users
\* the instants at which time.time() is read: 4 - 0 is the youngest age
\* outside a window of 3 s and the oldest still inside a window of 4 s, and
\* SettingsChoices has both windows
Times == {0, 4}
None == "none"

\* ----------------------------------------------------------------- roles
ROLE_ORDER == <<"seeker", "moderator", "admin", "head_admin", "creator">>

RoleNames == {ROLE_ORDER[i] : i \in 1..Len(ROLE_ORDER)}

\* ROLE_RANK.get(role, -1)
ROLE_RANK(r) ==
  IF r \in RoleNames
  THEN (CHOOSE i \in 1..Len(ROLE_ORDER) : ROLE_ORDER[i] = r) - 1
  ELSE -1

role_above(role, required) ==
  IF role = None THEN FALSE ELSE ROLE_RANK(role) > ROLE_RANK(required)

\* role_at_least (lines 140-143)
role_at_least(role, required) ==
  IF role = None THEN FALSE ELSE ROLE_RANK(role) >= ROLE_RANK(required)

can_use_any_role(role, cmd) == role # None

\* can_use (lines 146-166)
can_use(role, cmd) ==
  IF cmd = "invite" THEN role_at_least(role, "seeker")
  ELSE IF cmd \in {"warn", "mute", "unmute"} THEN role_at_least(role, "moderator")
  ELSE IF cmd \in {"ban", "unban"} THEN role_at_least(role, "admin")
  ELSE IF cmd \in {"kick", "setrole", "delrole", "automute", "setrules",
                   "setforum", "settings", "inactive"}
  THEN role_at_least(role, "head_admin")
  ELSE IF cmd = "to_main" THEN role_at_least(role, "moderator")
  ELSE FALSE

\* _wl_allowed (lines 1562-1563)
wl_allowed(role) == role \in {"creator", "head_admin"}

\* the gate each command handler applies to the looked-up role
Permitted(role, cmd) ==
  IF cmd \in {"wl_add", "wl_del"} THEN wl_allowed(role) ELSE can_use(role, cmd)

\* ------------------------------------------------------------- settings
DEFAULT ==
  [enabled |-> TRUE, flood_limit |-> 6, flood_window_sec |-> 10,
   repeat_limit |-> 3, block_links |-> TRUE,
   sticker_mode |-> "limit", gif_mode |-> "limit",
   sticker_limit |-> 4, gif_limit |-> 3, media_window_sec |-> 12,
   action |-> "mute", mute_seconds |-> 14400,
   cleanup_enabled |-> FALSE, cleanup_days |-> 14, cleanup_mode |-> "kick"]

\* Stored settings records the inline keyboard can reach from DEFAULT
\* (every numeric field at or above the minimum its "dec" button clamps to).
SettingsBase ==
  [DEFAULT EXCEPT !.flood_limit = 2, !.flood_window_sec = 3,
                  !.repeat_limit = 2, !.sticker_limit = 1,
                  !.gif_limit = 1, !.media_window_sec = 3]

SettingsChoices ==
  { SettingsBase,
    [DEFAULT EXCEPT !.flood_limit = 3, !.flood_window_sec = 3,
                    !.repeat_limit = 2, !.block_links = FALSE,
                    !.sticker_mode = "ban", !.gif_mode = "allow",
                    !.sticker_limit = 2, !.media_window_sec = 3,
                    !.action = "delete"],
    [DEFAULT EXCEPT !.flood_limit = 2, !.flood_window_sec = 4,
                    !.repeat_limit = 3, !.sticker_mode = "allow",
                    !.gif_mode = "ban", !.media_window_sec = 3,
                    !.action = "delete"],
    [DEFAULT EXCEPT !.enabled = FALSE, !.flood_limit = 2,
                    !.flood_window_sec = 3, !.repeat_limit = 2] }

\* ----------------------------------------------------------------- text
\* A text is a sequence of characters; "www." stands for one LINK_MARKERS
\* token.
Space == " "

Lower(ch) == IF ch = "A" THEN "a" ELSE IF ch = "B" THEN "b"
             ELSE IF ch = "WWW." THEN "www." ELSE ch

LowerAll(s) == [i \in 1..Len(s) |-> Lower(s[i])]

RECURSIVE LStrip(_)
LStrip(s) == IF s # <<>> /\ Head(s) = Space THEN LStrip(Tail(s)) ELSE s

RECURSIVE RStrip(_)
RStrip(s) ==
  IF s # <<>> /\ s[Len(s)] = Space THEN RStrip(SubSeq(s, 1, Len(s) - 1)) ELSE s

\* while "  " in s: s = s.replace("  ", " ")
RECURSIVE Collapse(_)
Collapse(s) ==
  IF Len(s) < 2 THEN s
  ELSE IF s[1] = Space /\ s[2] = Space THEN Collapse(Tail(s))
  ELSE <<s[1]>> \o Collapse(Tail(s))

norm_text(s) == Collapse(LowerAll(RStrip(LStrip(s))))

\* sha256(norm_text(s))[:16]: a fingerprint that is equal exactly for equal
\* normalized texts (collisions of the truncated hash are outside the model).
text_hash(s) == <<"h", norm_text(s)>>

contains_link(text) == \E i \in 1..Len(text) : Lower(text[i]) = "www."

Texts == { <<"a">>, <<Space, "A", Space>>, <<"www.", "a">> }



MsgShapes ==
  { [sticker |-> FALSE, animation |-> FALSE, mgid |-> 0, text |-> t] : t \in Texts }
  \cup { [sticker |-> TRUE, animation |-> FALSE, mgid |-> 0, text |-> <<>>],
         [sticker |-> FALSE, animation |-> TRUE, mgid |-> 0, text |-> <<>>],
         [sticker |-> FALSE, animation |-> FALSE, mgid |-> 1, text |-> <<"www.", "a">>],
         [sticker |-> FALSE, animation |-> FALSE, mgid |-> 1, text |-> <<>>] }

\* ---------------------------------------------------------------- state
VARIABLES
  settings,       \* DATA["settings"]: chat -> stored settings record
  whitelist,      \* DATA["whitelist"]: chat -> set of user ids
  roles,          \* DATA["roles"]: (chat, user) -> stored role or None
  warns,          \* DATA["warns"]: (chat, user) -> count (0: no record)
  activity,       \* DATA["activity"]: chat -> user -> last_ts (-1: no record)
  meta,           \* DATA["meta"]: chat -> forum destination and rules text
  disk,           \* the snapshot last written to data.json by save_data
  save_task,      \* the _delayed tasks created so far; the last one is
                  \* _activity_save_task
  tmp,            \* the file data.json.tmp
  proc,           \* the process: "down", "up", "stopped", "crashed", "dead"
  lock,           \* the holder of _data_lock, or None
  running,        \* the task the event loop is running, or Free between tasks
  writers,        \* the handler tasks that update the store, step by step
  hist,           \* history: the flushes, what each wrote and for whom
  status,         \* platform membership status of (chat, user)
  jobs,           \* the background loops and the manual sweep, step by step
  clock,          \* time.time()
  msg_times,      \* (chat, user) -> deque of timestamps
  sticker_times,
  gif_times,
  last_hash,      \* (chat, user) -> <<fingerprint, count>>
  album_seen,     \* (chat, user) -> set of <<group id, first-seen ts>>
  msgs,           \* the moderate_all task of each inbound message
  cmds,           \* the handler task of each privileged command
  log,            \* history: the record steps of each (chat, user), per category
  calls           \* history: the transport calls made, per task

vars == <<settings, whitelist, roles, warns, activity, meta, disk, save_task,
          tmp, proc, lock, running, writers, hist, status, jobs,
          clock, msg_times, sticker_times, gif_times, last_hash, album_seen,
          msgs, cmds, log, calls>>

dataVars == <<settings, whitelist, roles, warns, activity, meta>>
storeVars == <<tmp, proc, lock, running, writers, hist>>
memVars == <<msg_times, sticker_times, gif_times, last_hash, album_seen>>

Cats == {"message", "sticker", "animation"}

Snapshot(st, wl, ro, wa, ac, me) ==
  [settings |-> st, whitelist |-> wl, roles |-> ro, warns |-> wa, activity |-> ac,
   meta |-> me]

\* get_settings_local: the stored record (every field present in the model)
get_settings_local(c) == settings[c]

is_whitelisted_never(c, u) == FALSE

is_whitelisted(c, u) == u \in whitelist[c]

get_role_local(c, u) == roles[<<c, u>>]

get_stored_role_only(outcome, c, u) == get_role_local(c, u)

\* get_effective_role: platform ownership overrides the stored role; a
\* failed lookup (TelegramBadRequest) falls back to the stored role.
get_effective_role(outcome, c, u) ==
  IF outcome = "ok" /\ status[<<c, u>>] = "creator" THEN "creator"
  ELSE get_role_local(c, u)

Outcomes == {"ok", "bad"}

\* one transport call of task src; i orders the calls of one task
Call(src, op, target) ==
  [src |-> src, op |-> op, target |-> target,
   i |-> Cardinality({x \in calls : x.src = src})]

\* ------------------------------------------------------- background jobs
\* cleanup_loop, prune_activity_loop and the sweep started from the
\* settings keyboard: position, the chats still to sweep, the chat and the
\* rows of the current sweep, its settings, what the iteration did so far
IdleJob ==
  [pc |-> "idle", chats |-> <<>>, cid |-> 0, rows |-> <<>>, s |-> DEFAULT,
   trace |-> <<>>, failed |-> FALSE, last |-> None, iter |-> 0]

JobNames == {"cleanup_loop", "prune_loop", "run_now"}

\* no background task has been created
NoJobs == [j \in JobNames |-> IdleJob]

\* ------------------------------------------------------- moderate_all
IdleMsg ==
  [pc |-> "new", cid |-> 0, uid |-> 0, sticker |-> FALSE, animation |-> FALSE,
   mgid |-> 0, text |-> <<>>, now |-> 0, s |-> DEFAULT, role |-> None,
   pending |-> <<>>, acts |-> 0, wl |-> FALSE, reported |-> None, until |-> 0,
   exc |-> None]

InFlight(t) == t.pc \notin {"new", "done"}

\* a finished handler: its locals are gone
Done(t) ==
  IF t.acts = 0
  THEN [IdleMsg EXCEPT !.pc = "done", !.cid = t.cid, !.uid = t.uid]
  ELSE [IdleMsg EXCEPT !.pc = "done", !.cid = t.cid, !.uid = t.uid, !.acts = t.acts,
                       !.wl = t.wl, !.role = t.role, !.reported = t.reported,
                       !.until = t.until]

\* apply_action is entered once for every reason in rs
Dispatch(t, rs) ==
  IF rs = <<>> THEN Done(t)
  ELSE [t EXCEPT !.pc = "delete", !.pending = rs, !.acts = t.acts + Len(rs)]

\* schedule_activity_save: no new task while one is pending
\* _activity_save_task and not _activity_save_task.done() (line 418)
\* a _delayed task was created, finished or not
DelayedExists(tasks) == Len(tasks) > 0

DelayedPending(tasks) ==
  Len(tasks) > 0 /\ tasks[Len(tasks)] \notin {"done", "cancelled"}

schedule_always(tasks) == Append(tasks, "sleeping")

\* schedule_activity_save (lines 416-425): nothing when the last task created
\* is not done, else a new _delayed task
schedule(tasks) == IF DelayedPending(tasks) THEN tasks ELSE Append(tasks, "sleeping")

schedule_activity_save == save_task' = schedule(save_task)

\* lines 2304-2321: activity, settings, enabled, now, whitelist
ReceiveFrom(m, shapes, cap, senders) ==
  /\ msgs[m].pc = "new"
  /\ \A j \in 1..(m - 1) : msgs[j].pc # "new"
  /\ Cardinality({j \in DOMAIN msgs : InFlight(msgs[j])}) < cap
  /\ \E c \in Chats, u \in senders, sh \in shapes :
       LET s == get_settings_local(c)
           t == [IdleMsg EXCEPT !.cid = c, !.uid = u, !.sticker = sh.sticker,
                                !.animation = sh.animation, !.mgid = sh.mgid,
                                !.text = sh.text, !.s = s, !.now = clock,
                                !.wl = (u \in whitelist[c])]
       IN /\ activity' = [activity EXCEPT ![c][u] = clock]
          /\ schedule_activity_save
          /\ msgs' = [msgs EXCEPT ![m] =
                        IF ~s.enabled THEN Done(t)
                        ELSE IF is_whitelisted(c, u) THEN Done(t)
                        ELSE [t EXCEPT !.pc = "role"]]
  /\ UNCHANGED <<settings, whitelist, roles, warns, meta, disk, storeVars, status, jobs,
                 clock, memVars, cmds, log, calls>>

ReceiveOf(m, shapes, cap) == ReceiveFrom(m, shapes, cap, Senders)

Receive(m) == ReceiveOf(m, MsgShapes, MaxInFlight)

\* lines 2324-2326: role = await get_effective_role(...)
RoleLookup(m) ==
  /\ msgs[m].pc = "role"
  /\ \E outcome \in Outcomes :
       LET t == msgs[m]
           role == get_effective_role(outcome, t.cid, t.uid)
           t1 == [t EXCEPT !.role = role]
       IN msgs' = [msgs EXCEPT ![m] =
                     IF role # None /\ role_at_least(role, "moderator")
                     THEN Done(t1) ELSE [t1 EXCEPT !.pc = "member"]]
  /\ UNCHANGED <<dataVars, disk, save_task, storeVars, status, jobs, clock, memVars, cmds, log, calls>>

\* ---- the rate limiter: dq.append(now); while dq and now - dq[0] > w: popleft
RECURSIVE Trim(_, _, _)
Trim(dq, now, w) ==
  IF dq # <<>> /\ (now - Head(dq)) > w THEN Trim(Tail(dq), now, w) ELSE dq

RecordNoAppend(dq, now, w) == Trim(dq, now, w)

Record(dq, now, w) == Trim(Append(dq, now), now, w)

ExceededAtLimit(count, limit) == count >= limit

\* len(dq) > limit
Exceeded(count, limit) == count > limit

\* ---- the duplicate detector: (count + 1) if hsh == last_h else 1
DupCountNoReset(lh, hsh) == lh[2] + 1

DupCount(lh, hsh) == IF hsh = lh[1] THEN lh[2] + 1 ELSE 1

LogEntry(m, t, cat, L, W, seen, reasons, tnorm, dup) ==
  [m |-> m, ts |-> t.now, cat |-> cat, L |-> L, W |-> W, seen |-> seen,
   fired |-> (reasons # <<>> /\ reasons[1] \in {"flood", "sticker_limit", "gif_limit"}),
   reasons |-> reasons, tnorm |-> tnorm, rl |-> t.s.repeat_limit, dup |-> dup,
   gid |-> t.mgid]

\* ---- lines 2388-2414 after the record step: flood, links, repeat
TextChecksNoReturn(s, cnt, tnorm, lh) ==
  LET r1 == IF Exceeded(cnt, s.flood_limit) THEN <<"flood">> ELSE <<>>
      r2 == IF s.block_links /\ tnorm # <<>> /\ contains_link(tnorm)
            THEN <<"link">> ELSE <<>>
      c == DupCount(lh, text_hash(tnorm))
      r3 == IF tnorm # <<>> /\ c >= s.repeat_limit THEN <<"repeat">> ELSE <<>>
  IN [reasons |-> r1 \o r2 \o r3,
      lh |-> IF tnorm # <<>> THEN <<text_hash(tnorm), c>> ELSE lh,
      dup |-> tnorm # <<>>]

TextChecksHashFirst(s, cnt, tnorm, lh) ==
  LET hsh == text_hash(tnorm)
      count == DupCount(lh, hsh)
      lh1 == IF tnorm # <<>> THEN <<hsh, count>> ELSE lh
  IN IF Exceeded(cnt, s.flood_limit)
     THEN [reasons |-> <<"flood">>, lh |-> lh1, dup |-> FALSE]
     ELSE IF s.block_links /\ tnorm # <<>> /\ contains_link(tnorm)
     THEN [reasons |-> <<"link">>, lh |-> lh1, dup |-> FALSE]
     ELSE [reasons |-> IF tnorm # <<>> /\ count >= s.repeat_limit
                       THEN <<"repeat">> ELSE <<>>,
           lh |-> lh1, dup |-> tnorm # <<>>]

\* lines 2392-2414: flood, then links, then the duplicate detector
TextChecks(s, cnt, tnorm, lh) ==
  IF Exceeded(cnt, s.flood_limit)
  THEN [reasons |-> <<"flood">>, lh |-> lh, dup |-> FALSE]
  ELSE IF s.block_links /\ tnorm # <<>> /\ contains_link(tnorm)
  THEN [reasons |-> <<"link">>, lh |-> lh, dup |-> FALSE]
  ELSE IF tnorm # <<>>
  THEN LET hsh == text_hash(tnorm)
           count == DupCount(lh, hsh)
       IN [reasons |-> IF count >= s.repeat_limit THEN <<"repeat">> ELSE <<>>,
           lh |-> <<hsh, count>>, dup |-> TRUE]
  ELSE [reasons |-> <<>>, lh |-> lh, dup |-> FALSE]

\* ---- the album coalescer (lines 2336-2354)
AlbumCap == 300
AlbumEvict == 100

AlbumHas(seen, gid) == \E i \in 1..Len(seen) : seen[i][1] = gid

RemoveAt(q, i) == SubSeq(q, 1, i - 1) \o SubSeq(q, i + 1, Len(q))

\* the n entries inserted first are popped, whatever their timestamps
EvictFirst(seen, n) == SubSeq(seen, n + 1, Len(seen))

\* sorted(seen.items(), key=ts)[:n] popped: the n oldest, ties in dict order
EvictOldest(seen, n) ==
  LET N == Len(seen)
      Older(l, j) == \/ seen[l][2] < seen[j][2]
                     \/ seen[l][2] = seen[j][2] /\ l < j
      Remains(e) == \E j \in 1..N :
                   /\ seen[j] = e
                   /\ Cardinality({l \in 1..N : Older(l, j)}) >= n
  IN SelectSeq(seen, Remains)

AlbumInsert(seen, gid, now) ==
  LET s1 == Append(seen, <<gid, now>>)
  IN IF Len(s1) > AlbumCap THEN EvictOldest(s1, AlbumEvict) ELSE s1

AlbumStepAlways(m, t) ==
  LET k == <<t.cid, t.uid>>
      cap == norm_text(t.text)
      rs == IF cap # <<>> /\ t.s.block_links /\ contains_link(cap)
            THEN <<"album_link">> ELSE <<>>
  IN /\ album_seen' = [album_seen EXCEPT ![k] = AlbumInsert(@, t.mgid, t.now)]
     /\ log' = [log EXCEPT ![k] =
                  Append(@, LogEntry(m, t, "album", 0, 0, <<>>, rs, cap, FALSE))]
     /\ msgs' = [msgs EXCEPT ![m] = Dispatch(t, rs)]
     /\ UNCHANGED <<msg_times, sticker_times, gif_times, last_hash>>

AlbumStep(m, t) ==
  LET k == <<t.cid, t.uid>>
      cap == norm_text(t.text)
      rs == IF cap # <<>> /\ t.s.block_links /\ contains_link(cap)
            THEN <<"album_link">> ELSE <<>>
  IN IF AlbumHas(album_seen[k], t.mgid)
     THEN /\ msgs' = [msgs EXCEPT ![m] = Done(t)]
          /\ log' = [log EXCEPT ![k] =
                       Append(@, LogEntry(m, t, "album_dup", 0, 0, <<>>, <<>>, <<>>, FALSE))]
          /\ UNCHANGED memVars
     ELSE /\ album_seen' = [album_seen EXCEPT ![k] = AlbumInsert(@, t.mgid, t.now)]
          /\ log' = [log EXCEPT ![k] =
                       Append(@, LogEntry(m, t, "album", 0, 0, <<>>, rs, cap, FALSE))]
          /\ msgs' = [msgs EXCEPT ![m] = Dispatch(t, rs)]
          /\ UNCHANGED <<msg_times, sticker_times, gif_times, last_hash>>

StickerStepNoAllow(m, t) ==
  LET k == <<t.cid, t.uid>>
      dq == Record(sticker_times[k], t.now, t.s.media_window_sec)
      rs == IF Exceeded(Len(dq), t.s.sticker_limit) THEN <<"sticker_limit">> ELSE <<>>
  IN IF t.s.sticker_mode = "ban"
     THEN /\ msgs' = [msgs EXCEPT ![m] = Dispatch(t, <<"sticker_ban">>)]
          /\ UNCHANGED <<memVars, log>>
     ELSE /\ sticker_times' = [sticker_times EXCEPT ![k] = dq]
          /\ log' = [log EXCEPT ![k] =
                       Append(@, LogEntry(m, t, "sticker", t.s.sticker_limit,
                                          t.s.media_window_sec, dq, rs, <<>>, FALSE))]
          /\ msgs' = [msgs EXCEPT ![m] = Dispatch(t, rs)]
          /\ UNCHANGED <<msg_times, gif_times, last_hash, album_seen>>

\* ---- stickers (lines 2357-2370)
StickerStep(m, t) ==
  LET k == <<t.cid, t.uid>>
      mode == t.s.sticker_mode
      dq == Record(sticker_times[k], t.now, t.s.media_window_sec)
      rs == IF Exceeded(Len(dq), t.s.sticker_limit) THEN <<"sticker_limit">> ELSE <<>>
  IN IF mode = "ban"
     THEN /\ msgs' = [msgs EXCEPT ![m] = Dispatch(t, <<"sticker_ban">>)]
          /\ UNCHANGED <<memVars, log>>
     ELSE IF mode = "limit"
     THEN /\ sticker_times' = [sticker_times EXCEPT ![k] = dq]
          /\ log' = [log EXCEPT ![k] =
                       Append(@, LogEntry(m, t, "sticker", t.s.sticker_limit,
                                          t.s.media_window_sec, dq, rs, <<>>, FALSE))]
          /\ msgs' = [msgs EXCEPT ![m] = Dispatch(t, rs)]
          /\ UNCHANGED <<msg_times, gif_times, last_hash, album_seen>>
     ELSE /\ msgs' = [msgs EXCEPT ![m] = Done(t)]
          /\ UNCHANGED <<memVars, log>>

AnimationStepShared(m, t) ==
  LET k == <<t.cid, t.uid>>
      mode == t.s.gif_mode
      dq == Record(sticker_times[k], t.now, t.s.media_window_sec)
      rs == IF Exceeded(Len(dq), t.s.gif_limit) THEN <<"gif_limit">> ELSE <<>>
  IN IF mode = "ban"
     THEN /\ msgs' = [msgs EXCEPT ![m] = Dispatch(t, <<"gif_ban">>)]
          /\ UNCHANGED <<memVars, log>>
     ELSE IF mode = "limit"
     THEN /\ sticker_times' = [sticker_times EXCEPT ![k] = dq]
          /\ log' = [log EXCEPT ![k] =
                       Append(@, LogEntry(m, t, "animation", t.s.gif_limit,
                                          t.s.media_window_sec, dq, rs, <<>>, FALSE))]
          /\ msgs' = [msgs EXCEPT ![m] = Dispatch(t, rs)]
          /\ UNCHANGED <<msg_times, gif_times, last_hash, album_seen>>
     ELSE /\ msgs' = [msgs EXCEPT ![m] = Done(t)]
          /\ UNCHANGED <<memVars, log>>

\* ---- animations (lines 2373-2386)
AnimationStep(m, t) ==
  LET k == <<t.cid, t.uid>>
      mode == t.s.gif_mode
      dq == Record(gif_times[k], t.now, t.s.media_window_sec)
      rs == IF Exceeded(Len(dq), t.s.gif_limit) THEN <<"gif_limit">> ELSE <<>>
  IN IF mode = "ban"
     THEN /\ msgs' = [msgs EXCEPT ![m] = Dispatch(t, <<"gif_ban">>)]
          /\ UNCHANGED <<memVars, log>>
     ELSE IF mode = "limit"
     THEN /\ gif_times' = [gif_times EXCEPT ![k] = dq]
          /\ log' = [log EXCEPT ![k] =
                       Append(@, LogEntry(m, t, "animation", t.s.gif_limit,
                                          t.s.media_window_sec, dq, rs, <<>>, FALSE))]
          /\ msgs' = [msgs EXCEPT ![m] = Dispatch(t, rs)]
          /\ UNCHANGED <<msg_times, sticker_times, last_hash, album_seen>>
     ELSE /\ msgs' = [msgs EXCEPT ![m] = Done(t)]
          /\ UNCHANGED <<memVars, log>>

\* ---- text / caption (lines 2388-2414)
TextStep(m, t) ==
  LET k == <<t.cid, t.uid>>
      tnorm == norm_text(t.text)
      dq == Record(msg_times[k], t.now, t.s.flood_window_sec)
      r == TextChecks(t.s, Len(dq), tnorm, last_hash[k])
  IN /\ msg_times' = [msg_times EXCEPT ![k] = dq]
     /\ last_hash' = [last_hash EXCEPT ![k] = r.lh]
     /\ log' = [log EXCEPT ![k] =
                  Append(@, LogEntry(m, t, "message", t.s.flood_limit,
                                     t.s.flood_window_sec, dq, r.reasons, tnorm, r.dup))]
     /\ msgs' = [msgs EXCEPT ![m] = Dispatch(t, r.reasons)]
     /\ UNCHANGED <<sticker_times, gif_times, album_seen>>

\* member.status in ("administrator", "creator"); a failed lookup passes
IsPlatformAdmin(outcome, st) == outcome = "ok" /\ st \in {"administrator", "creator"}

\* lines 2328-2414: the second membership lookup, then every check up to
\* the first await of apply_action, without suspension
MemberLookup(m) ==
  /\ msgs[m].pc = "member"
  /\ \E outcome \in Outcomes :
       LET st == status[<<msgs[m].cid, msgs[m].uid>>]
           t == [msgs[m] EXCEPT !.reported = IF outcome = "ok" THEN st ELSE None]
       IN IF IsPlatformAdmin(outcome, st)
          THEN /\ msgs' = [msgs EXCEPT ![m] = Done(t)]
               /\ UNCHANGED <<memVars, log>>
          ELSE IF t.mgid # 0 THEN AlbumStep(m, t)
          ELSE IF t.sticker THEN StickerStep(m, t)
          ELSE IF t.animation THEN AnimationStep(m, t)
          ELSE TextStep(m, t)
  /\ UNCHANGED <<dataVars, disk, save_task, storeVars, status, jobs, clock, cmds, calls>>

\* ------------------------------------------------------- apply_action
MsgSrc(m) == <<"msg", m>>

\* the dispatcher returns: the next pending reason, or the handler ends
AfterAction(t) ==
  IF Len(t.pending) > 1
  THEN [t EXCEPT !.pc = "delete", !.pending = Tail(t.pending)]
  ELSE Done(t)

\* lines 758-761: await message.delete(); TelegramBadRequest is swallowed, so
\* the dispatcher continues the same way whether the call succeeds or not
ApplyDelete(m) ==
  /\ msgs[m].pc = "delete"
  /\ calls' = calls \cup {Call(MsgSrc(m), "delete", <<msgs[m].cid, msgs[m].uid>>)}
  /\ msgs' = [msgs EXCEPT ![m].pc = "log"]
  /\ UNCHANGED <<dataVars, disk, save_task, storeVars, status, jobs, clock, memVars, cmds, log>>

\* lines 763-785: display_user_mention and log_action, every failure swallowed
ApplyLog(m) ==
  /\ msgs[m].pc = "log"
  /\ calls' = calls \cup {Call(MsgSrc(m), "send", <<msgs[m].cid, msgs[m].uid>>)}
  /\ msgs' = [msgs EXCEPT ![m] =
                IF msgs[m].s.action = "mute" THEN [msgs[m] EXCEPT !.pc = "mute"]
                ELSE AfterAction(msgs[m])]
  /\ UNCHANGED <<dataVars, disk, save_task, storeVars, status, jobs, clock, memVars, cmds, log>>

MuteFromArrival(t) == t.now + t.s.mute_seconds

\* until = int(time.time()) + int(settings.mute_seconds) (line 789)
MuteUntil(t) == clock + t.s.mute_seconds

\* lines 788-799: restrict until now + mute_seconds, TelegramBadRequest swallowed
ApplyMute(m) ==
  /\ msgs[m].pc = "mute"
  /\ calls' = calls \cup {Call(MsgSrc(m), "restrict", <<msgs[m].cid, msgs[m].uid>>)}
  /\ msgs' = [msgs EXCEPT ![m] = AfterAction([msgs[m] EXCEPT !.until = MuteUntil(msgs[m])])]
  /\ UNCHANGED <<dataVars, disk, save_task, storeVars, status, jobs, clock, memVars, cmds, log>>

\* ---- transport errors other than TelegramBadRequest (TelegramForbiddenError,
\* TelegramRetryAfter, TelegramNetworkError are its siblings under
\* TelegramAPIError and are not caught by "except TelegramBadRequest")
\* the exception leaves moderate_all: the handler is over
Raised(t) == [Done(t) EXCEPT !.exc = "raised"]

\* lines 758-761 and 791-799: message.delete() or restrict_chat_member raises
\* such an error; neither try block catches it, so it leaves apply_action
ApplyRaise(m) ==
  /\ msgs[m].pc \in {"delete", "mute"}
  /\ calls' = calls \cup {Call(MsgSrc(m), IF msgs[m].pc = "delete" THEN "delete"
                                          ELSE "restrict",
                               <<msgs[m].cid, msgs[m].uid>>)}
  /\ msgs' = [msgs EXCEPT ![m] = Raised(msgs[m])]
  /\ UNCHANGED <<dataVars, disk, save_task, storeVars, status, jobs, clock, memVars, cmds, log>>

\* ------------------------------------------------------- environment
TickOf(times) ==
  /\ clock' \in {t \in times : t > clock}
  /\ UNCHANGED <<dataVars, disk, save_task, storeVars, status, jobs, memVars, msgs, cmds, log, calls>>

Tick == TickOf(Times)

\* save_data (lines 258-266): the whole DATA is rewritten
save_data ==
  disk' = Snapshot(settings', whitelist', roles', warns', activity', meta')

\* ------------------------------------------------------- commands
ModCmds == {"warn", "mute", "unmute", "ban", "unban", "kick"}
ViewCmds == {"settings", "inactive", "wl_list"}
MetaCmds == {"setrules", "setforum"}
WlCmds == {"wl_add", "wl_del"}
TargetCmds == ModCmds \cup WlCmds \cup {"setrole", "delrole"}

\* the command texts a user may send: the command and its argument
CmdInputs ==
  [cmd : ModCmds \cup ViewCmds \cup MetaCmds \cup WlCmds \cup {"delrole", "invite"},
   arg : {None}]
  \cup [cmd : {"setrole"}, arg : {"moderator", "creator"}]
  \cup [cmd : {"automute"}, arg : {60}]
  \cup [cmd : {"to_main"}, arg : {"--del"}]

WarnInputs == {[cmd |-> "warn", arg |-> None]}

IdleCmd ==
  [pc |-> "new", cmd |-> None, arg |-> None, cid |-> 0, actor |-> 0, target |-> 0,
   role |-> None, gate |-> None, eff |-> None,
   tstat |-> None, arole |-> None, trole |-> None, ecm |-> None, cnt |-> 0]

CmdSrc(t) == <<"cmd", t>>

\* the handler has returned (or was ended by an exception): what remains of
\* it is the history the properties speak of
CmdDone(x) ==
  [IdleCmd EXCEPT !.pc = "done", !.cmd = x.cmd, !.cid = x.cid, !.actor = x.actor,
                  !.target = x.target, !.gate = x.gate, !.eff = x.eff,
                  !.tstat = x.tstat, !.arole = x.arole, !.trole = x.trole,
                  !.ecm = x.ecm, !.cnt = x.cnt]

\* the role a lookup that succeeds returns at this moment
EffectiveNow(c, u) == get_effective_role("ok", c, u)

\* a command message arrives; the handler reaches its first await, the
\* membership lookup of get_effective_role
CmdStartOf(t, inputs) ==
  /\ cmds[t].pc = "new"
  /\ \A j \in 1..(t - 1) : cmds[j].pc # "new"
  /\ \E inp \in inputs : \E c \in Chats : \E a \in Users :
       \E g \in (IF inp.cmd \in TargetCmds THEN Users \ {a} ELSE {0}) :
         cmds' = [cmds EXCEPT ![t] =
                    [IdleCmd EXCEPT !.pc = "auth", !.cmd = inp.cmd, !.arg = inp.arg,
                                    !.cid = c, !.actor = a, !.target = g]]
  /\ UNCHANGED <<dataVars, disk, save_task, storeVars, status, jobs, clock, memVars, msgs, log, calls>>

CmdStart(t) == CmdStartOf(t, CmdInputs)

WarnStart(t) == CmdStartOf(t, WarnInputs)

\* the role the handler's lookup yields
LookedUp(t, o) == get_effective_role(o, cmds[t].cid, cmds[t].actor)

\* the handler's record once the gate is passed; eff remembers the role a
\* successful lookup would have returned when the gate was evaluated
Gated(t, o, gate, pc) ==
  [cmds[t] EXCEPT !.role = LookedUp(t, o), !.gate = gate, !.pc = pc,
                  !.eff = EffectiveNow(cmds[t].cid, cmds[t].actor)]

Answer(t) == calls' = calls \cup {Call(CmdSrc(t), "answer", cmds[t].cid)}

\* "if not can_use(role, cmd): await message.answer(...); return"
CmdReject(t) ==
  /\ cmds[t].pc = "auth"
  /\ \E o \in Outcomes :
       /\ ~Permitted(LookedUp(t, o), cmds[t].cmd)
       /\ cmds' = [cmds EXCEPT ![t] = CmdDone(Gated(t, o, "rejected", "done"))]
  /\ Answer(t)
  /\ UNCHANGED <<dataVars, disk, save_task, storeVars, status, jobs, clock, memVars, msgs, log>>

\* warn, mute, unmute, ban, unban, kick: the target is resolved and
\* ensure_can_moderate_target reaches its first lookup
ModAuth(t) ==
  /\ cmds[t].pc = "auth"
  /\ cmds[t].cmd \in ModCmds
  /\ \E o \in Outcomes :
       /\ Permitted(LookedUp(t, o), cmds[t].cmd)
       /\ cmds' = [cmds EXCEPT ![t] = Gated(t, o, "passed", "ecm1")]
  /\ UNCHANGED <<dataVars, disk, save_task, storeVars, status, jobs, clock, memVars, msgs, log, calls>>

MayAssignAny(role_me, new_role) == TRUE

\* cmd_setrole line 1470: only the creator assigns the role creator
MayAssign(role_me, new_role) == ~(new_role = "creator" /\ role_me # "creator")

\* cmd_setrole (lines 1445-1485): only a creator may assign creator
SetRole(t) ==
  /\ cmds[t].pc = "auth"
  /\ cmds[t].cmd = "setrole"
  /\ \E o \in Outcomes :
       /\ Permitted(LookedUp(t, o), "setrole")
       /\ cmds' = [cmds EXCEPT ![t] = CmdDone(Gated(t, o, "passed", "done"))]
       /\ IF ~MayAssign(LookedUp(t, o), cmds[t].arg)
          THEN /\ Answer(t)
               /\ UNCHANGED <<dataVars, disk>>
          ELSE /\ roles' = [roles EXCEPT ![<<cmds[t].cid, cmds[t].target>>] = cmds[t].arg]
               /\ UNCHANGED <<settings, whitelist, warns, activity, meta>>
               /\ save_data
               /\ calls' = calls \cup {Call(CmdSrc(t), "save", cmds[t].cid)}
  /\ UNCHANGED <<save_task, storeVars, status, jobs, clock, memVars, msgs, log>>

\* cmd_delrole (lines 1488-1513)
DelRole(t) ==
  /\ cmds[t].pc = "auth"
  /\ cmds[t].cmd = "delrole"
  /\ \E o \in Outcomes :
       /\ Permitted(LookedUp(t, o), "delrole")
       /\ cmds' = [cmds EXCEPT ![t] = CmdDone(Gated(t, o, "passed", "done"))]
  /\ roles' = [roles EXCEPT ![<<cmds[t].cid, cmds[t].target>>] = None]
  /\ UNCHANGED <<settings, whitelist, warns, activity, meta>>
  /\ save_data
  /\ calls' = calls \cup {Call(CmdSrc(t), "save", cmds[t].cid)}
  /\ UNCHANGED <<save_task, storeVars, status, jobs, clock, memVars, msgs, log>>

\* cmd_wl_add, cmd_wl_del (lines 1566-1598)
WlChange(t) ==
  /\ cmds[t].pc = "auth"
  /\ cmds[t].cmd \in WlCmds
  /\ \E o \in Outcomes :
       /\ Permitted(LookedUp(t, o), cmds[t].cmd)
       /\ cmds' = [cmds EXCEPT ![t] = CmdDone(Gated(t, o, "passed", "done"))]
  /\ whitelist' = [whitelist EXCEPT ![cmds[t].cid] =
                     IF cmds[t].cmd = "wl_add" THEN @ \cup {cmds[t].target}
                     ELSE @ \ {cmds[t].target}]
  /\ UNCHANGED <<settings, roles, warns, activity, meta>>
  /\ save_data
  /\ calls' = calls \cup {Call(CmdSrc(t), "save", cmds[t].cid)}
  /\ UNCHANGED <<save_task, storeVars, status, jobs, clock, memVars, msgs, log>>

\* cmd_automute (lines 1355-1388): two set_setting_local calls, no suspension
AutoMute(t) ==
  /\ cmds[t].pc = "auth"
  /\ cmds[t].cmd = "automute"
  /\ \E o \in Outcomes :
       /\ Permitted(LookedUp(t, o), "automute")
       /\ cmds' = [cmds EXCEPT ![t] = CmdDone(Gated(t, o, "passed", "done"))]
  /\ settings' = [settings EXCEPT ![cmds[t].cid] =
                    [@ EXCEPT !.action = "mute", !.mute_seconds = cmds[t].arg]]
  /\ UNCHANGED <<whitelist, roles, warns, activity, meta>>
  /\ save_data
  /\ calls' = calls \cup {Call(CmdSrc(t), "save", cmds[t].cid)}
  /\ UNCHANGED <<save_task, storeVars, status, jobs, clock, memVars, msgs, log>>

\* cmd_setforum, cmd_setrules: set_meta_local
SetMeta(t) ==
  /\ cmds[t].pc = "auth"
  /\ cmds[t].cmd \in MetaCmds
  /\ \E o \in Outcomes :
       /\ Permitted(LookedUp(t, o), cmds[t].cmd)
       /\ cmds' = [cmds EXCEPT ![t] = CmdDone(Gated(t, o, "passed", "done"))]
  /\ meta' = [meta EXCEPT ![cmds[t].cid] =
                IF cmds[t].cmd = "setforum" THEN [@ EXCEPT !.forum = "set"]
                ELSE [@ EXCEPT !.rules = "set"]]
  /\ UNCHANGED <<settings, whitelist, roles, warns, activity>>
  /\ save_data
  /\ calls' = calls \cup {Call(CmdSrc(t), "save", cmds[t].cid)}
  /\ UNCHANGED <<save_task, storeVars, status, jobs, clock, memVars, msgs, log>>

\* cmd_settings, cmd_inactive, cmd_wl_list: a rendered reply only
View(t) ==
  /\ cmds[t].pc = "auth"
  /\ cmds[t].cmd \in ViewCmds
  /\ \E o \in Outcomes :
       /\ Permitted(LookedUp(t, o), cmds[t].cmd)
       /\ cmds' = [cmds EXCEPT ![t] = CmdDone(Gated(t, o, "passed", "done"))]
  /\ Answer(t)
  /\ UNCHANGED <<dataVars, disk, save_task, storeVars, status, jobs, clock, memVars, msgs, log>>

\* cmd_invite, cmd_to_main: the gate is passed, the transport call follows
\* the next await
LinkAuth(t) ==
  /\ cmds[t].pc = "auth"
  /\ cmds[t].cmd \in {"invite", "to_main"}
  /\ \E o \in Outcomes :
       /\ Permitted(LookedUp(t, o), cmds[t].cmd)
       /\ cmds' = [cmds EXCEPT ![t] =
                     Gated(t, o, "passed", IF cmds[t].cmd = "invite" THEN "invite" ELSE "copy")]
  /\ UNCHANGED <<dataVars, disk, save_task, storeVars, status, jobs, clock, memVars, msgs, log, calls>>

\* cmd_invite (lines 1402-1442): a seeker's link leads to the main chat
InviteLink(t) ==
  /\ cmds[t].pc = "invite"
  /\ calls' = calls \cup {Call(CmdSrc(t), "invite",
                               IF cmds[t].role = "seeker" THEN "main" ELSE cmds[t].cid)}
  /\ cmds' = [cmds EXCEPT ![t] = CmdDone(cmds[t])]
  /\ UNCHANGED <<dataVars, disk, save_task, storeVars, status, jobs, clock, memVars, msgs, log>>

\* cmd_to_main (lines 1880-1926): copy, then delete the original on --del
Copy(t) ==
  /\ cmds[t].pc = "copy"
  /\ calls' = calls \cup {Call(CmdSrc(t), "copy", "main")}
  /\ \E o \in Outcomes :
       cmds' = [cmds EXCEPT ![t] =
                  IF o = "ok" /\ cmds[t].arg = "--del" THEN [@ EXCEPT !.pc = "del"]
                  ELSE CmdDone(@)]
  /\ UNCHANGED <<dataVars, disk, save_task, storeVars, status, jobs, clock, memVars, msgs, log>>

CopyDelete(t) ==
  /\ cmds[t].pc = "del"
  /\ calls' = calls \cup {Call(CmdSrc(t), "delete", cmds[t].cid)}
  /\ cmds' = [cmds EXCEPT ![t] = CmdDone(cmds[t])]
  /\ UNCHANGED <<dataVars, disk, save_task, storeVars, status, jobs, clock, memVars, msgs, log>>

\* ensure_can_moderate_target (lines 717-731), first await: the target's
\* membership; a failed lookup is passed over
Ecm1(t) ==
  /\ cmds[t].pc = "ecm1"
  /\ \E o \in Outcomes :
       LET st == status[<<cmds[t].cid, cmds[t].target>>]
       IN IF o = "ok" /\ st \in {"creator", "administrator"}
          THEN /\ cmds' = [cmds EXCEPT ![t] =
                             CmdDone([@ EXCEPT !.tstat = st, !.ecm = "refused"])]
               /\ Answer(t)
          ELSE /\ cmds' = [cmds EXCEPT ![t].pc = "ecm2"]
               /\ UNCHANGED calls
  /\ UNCHANGED <<dataVars, disk, save_task, storeVars, status, jobs, clock, memVars, msgs, log>>

\* second await: actor_role = await get_effective_role(actor)
Ecm2(t) ==
  /\ cmds[t].pc = "ecm2"
  /\ \E o \in Outcomes :
       cmds' = [cmds EXCEPT ![t] =
                  [@ EXCEPT !.arole = LookedUp(t, o), !.pc = "ecm3"]]
  /\ UNCHANGED <<dataVars, disk, save_task, storeVars, status, jobs, clock, memVars, msgs, log, calls>>

\* lines 727-731: the comparison is made only when both roles are present
RankCompare(actor_role, target_role) ==
  IF actor_role # None /\ target_role # None
  THEN ~(ROLE_RANK(target_role) >= ROLE_RANK(actor_role))
  ELSE TRUE

WarnTotalStale(count) == IF count = 0 THEN 1 ELSE count

\* the entry is built anew on every warn
WarnTotalFresh(count) == 1

\* add_warn_local (lines 501-520): entry["count"] = count + 1
WarnTotal(count) == count + 1

\* third await: target_role, the verdict, and the handler up to its next
\* await: an answer when refused, add_warn_local for /warn, the transport
\* call of the other commands
Ecm3(t) ==
  /\ cmds[t].pc = "ecm3"
  /\ \E o \in Outcomes :
       LET k == <<cmds[t].cid, cmds[t].target>>
           tr == get_effective_role(o, cmds[t].cid, cmds[t].target)
           can == RankCompare(cmds[t].arole, tr)
           x == [cmds[t] EXCEPT !.trole = tr,
                                !.ecm = IF can THEN "allowed" ELSE "refused"]
       IN IF ~can
          THEN /\ cmds' = [cmds EXCEPT ![t] = CmdDone(x)]
               /\ Answer(t)
               /\ UNCHANGED <<dataVars, disk>>
          ELSE IF cmds[t].cmd = "warn"
          THEN /\ warns' = [warns EXCEPT ![k] = WarnTotal(warns[k])]
               /\ UNCHANGED <<settings, whitelist, roles, activity, meta>>
               /\ save_data
               /\ cmds' = [cmds EXCEPT ![t] =
                             [x EXCEPT !.cnt = WarnTotal(warns[k]), !.pc = "warn_reply"]]
               /\ calls' = calls \cup {Call(CmdSrc(t), "save", cmds[t].cid)}
          ELSE /\ cmds' = [cmds EXCEPT ![t] = [x EXCEPT !.pc = "exec"]]
               /\ UNCHANGED <<dataVars, disk, calls>>
  /\ UNCHANGED <<save_task, storeVars, status, jobs, clock, memVars, msgs, log>>

\* the transport call of mute, unmute, ban, unban, kick
ExecOp(cmd) ==
  IF cmd \in {"mute", "unmute"} THEN "restrict"
  ELSE IF cmd = "unban" THEN "unban"
  ELSE "ban"

\* cmd_kick (lines 2190-2195) goes on to unban_chat_member when the ban
\* succeeded; every other command is done with its one call
Exec(t) ==
  /\ cmds[t].pc = "exec"
  /\ calls' = calls \cup {Call(CmdSrc(t), ExecOp(cmds[t].cmd), cmds[t].target)}
  /\ \E o \in (IF cmds[t].cmd = "kick" THEN Outcomes ELSE {"ok"}) :
       cmds' = [cmds EXCEPT ![t] =
                  IF cmds[t].cmd = "kick" /\ o = "ok" THEN [@ EXCEPT !.pc = "exec2"]
                  ELSE CmdDone(@)]
  /\ UNCHANGED <<dataVars, disk, save_task, storeVars, status, jobs, clock, memVars, msgs, log>>

KickUnban(t) ==
  /\ cmds[t].pc = "exec2"
  /\ calls' = calls \cup {Call(CmdSrc(t), "unban", cmds[t].target)}
  /\ cmds' = [cmds EXCEPT ![t] = CmdDone(cmds[t])]
  /\ UNCHANGED <<dataVars, disk, save_task, storeVars, status, jobs, clock, memVars, msgs, log>>

\* line 2265: if cnt % 3 == 0
AutoMuteDue(cnt) == cnt % 3 = 0

\* cmd_warn lines 2248-2263: the two mentions, then message.answer outside
\* any try: a TelegramBadRequest ends the handler there; log_action follows
WarnReply(t) ==
  /\ cmds[t].pc = "warn_reply"
  /\ Answer(t)
  /\ \E o \in Outcomes :
       cmds' = [cmds EXCEPT ![t] =
                  IF o = "ok" /\ AutoMuteDue(cmds[t].cnt) THEN [@ EXCEPT !.pc = "warn_mute"]
                  ELSE CmdDone(@)]
  /\ UNCHANGED <<dataVars, disk, save_task, storeVars, status, jobs, clock, memVars, msgs, log>>

\* lines 2266-2270: restrict for one hour, TelegramBadRequest swallowed
WarnMute(t) ==
  /\ cmds[t].pc = "warn_mute"
  /\ calls' = calls \cup {Call(CmdSrc(t), "restrict", cmds[t].target)}
  /\ cmds' = [cmds EXCEPT ![t] = CmdDone(cmds[t])]
  /\ UNCHANGED <<dataVars, disk, save_task, storeVars, status, jobs, clock, memVars, msgs, log>>

\* =====================================================================
\* The store, step by step: every statement of a handler's synchronous
\* stretch that touches DATA, _data_lock or the files is one step; the event
\* loop runs one task at a time (running) and takes up another only when
\* the running one awaits a transport call or ends
\* =====================================================================

\* ------------------------------------------------- settings mutations
\* min(hi, v + 1) and max(lo, v - 1) of the inline-keyboard steps
IncUnbounded(v, hi) == v + 1

Inc(v, hi) == IF v + 1 > hi THEN hi ELSE v + 1

Dec(v, lo) == IF v - 1 < lo THEN lo ELSE v - 1

\* modes[(modes.index(x) + 1) % len(modes)]
NextIn(order, x) ==
  LET i == CHOOSE j \in 1..Len(order) : order[j] = x
  IN order[(i % Len(order)) + 1]

MediaModes == <<"allow", "limit", "ban">>
CleanupModes == <<"kick", "ban">>
CleanupDays == <<7, 14, 30, 60, 90>>

SeqRange(q) == {q[i] : i \in 1..Len(q)}

\* cb_settings (lines 1684-1818): the set_setting_local calls a button
\* makes, as <<field, value>>, from the settings s it has just read
ButtonWrites(s, data) ==
  CASE data = "toggle_enabled" -> << <<"enabled", ~s.enabled>> >>
    [] data = "toggle_links" -> << <<"block_links", ~s.block_links>> >>
    [] data = "action_toggle" ->
         << <<"action", IF s.action = "delete" THEN "mute" ELSE "delete">> >>
    [] data = "mute_4h" -> << <<"action", "mute">>, <<"mute_seconds", 14400>> >>
    [] data = "mute_plus30" ->
         << <<"mute_seconds", IF s.mute_seconds + 30 > 86400 THEN 86400
                              ELSE s.mute_seconds + 30>> >>
    [] data = "mute_minus30" ->
         << <<"mute_seconds", IF s.mute_seconds - 30 < 30 THEN 30
                              ELSE s.mute_seconds - 30>> >>
    [] data = "flood_inc" -> << <<"flood_limit", Inc(s.flood_limit, 50)>> >>
    [] data = "flood_dec" -> << <<"flood_limit", Dec(s.flood_limit, 2)>> >>
    [] data = "window_inc" -> << <<"flood_window_sec", Inc(s.flood_window_sec, 120)>> >>
    [] data = "window_dec" -> << <<"flood_window_sec", Dec(s.flood_window_sec, 3)>> >>
    [] data = "repeat_inc" -> << <<"repeat_limit", Inc(s.repeat_limit, 10)>> >>
    [] data = "repeat_dec" -> << <<"repeat_limit", Dec(s.repeat_limit, 2)>> >>
    [] data = "sticker_mode" -> << <<"sticker_mode", NextIn(MediaModes, s.sticker_mode)>> >>
    [] data = "gif_mode" -> << <<"gif_mode", NextIn(MediaModes, s.gif_mode)>> >>
    [] data = "sticker_lim_inc" -> << <<"sticker_limit", Inc(s.sticker_limit, 30)>> >>
    [] data = "sticker_lim_dec" -> << <<"sticker_limit", Dec(s.sticker_limit, 1)>> >>
    [] data = "gif_lim_inc" -> << <<"gif_limit", Inc(s.gif_limit, 30)>> >>
    [] data = "gif_lim_dec" -> << <<"gif_limit", Dec(s.gif_limit, 1)>> >>
    [] data = "media_window_inc" ->
         << <<"media_window_sec", Inc(s.media_window_sec, 120)>> >>
    [] data = "media_window_dec" ->
         << <<"media_window_sec", Dec(s.media_window_sec, 3)>> >>
    [] data = "cleanup_toggle" -> << <<"cleanup_enabled", ~s.cleanup_enabled>> >>
    [] data = "cleanup_days_cycle" ->
         << <<"cleanup_days",
              NextIn(CleanupDays,
                     IF s.cleanup_days \in SeqRange(CleanupDays) THEN s.cleanup_days
                     ELSE 14)>> >>
    [] data = "cleanup_mode" -> << <<"cleanup_mode", NextIn(CleanupModes, s.cleanup_mode)>> >>
    [] OTHER -> <<>>

\* the callback data of the settings keyboard; wl_hint_add writes nothing
Buttons ==
  {"toggle_enabled", "toggle_links", "action_toggle", "mute_4h", "mute_plus30",
   "mute_minus30", "flood_inc", "flood_dec", "window_inc", "window_dec",
   "repeat_inc", "repeat_dec", "sticker_mode", "gif_mode", "sticker_lim_inc",
   "sticker_lim_dec", "gif_lim_inc", "gif_lim_dec", "media_window_inc",
   "media_window_dec", "cleanup_toggle", "cleanup_days_cycle", "cleanup_mode",
   "wl_hint_add"}

\* ------------------------------------------------- durations
\* a duration argument after strip and lower: a sequence of tokens, a run of
\* digits or a word; cyr_* name the Cyrillic unit words
Num(n) == [digits |-> TRUE, n |-> n, word |-> ""]
Word(c) == [digits |-> FALSE, n |-> 0, word |-> c]

\* lines 637-640: the first letter of a word after the unit replacements
Replaced(word) ==
  CASE word \in {"s", "cyr_sek", "cyr_s"} -> "s"
    [] word \in {"m", "cyr_min", "cyr_m"} -> "m"
    [] word \in {"h", "cyr_chas", "cyr_ch"} -> "h"
    [] word \in {"d", "cyr_dn", "cyr_d"} -> "d"
    [] OTHER -> word

UnitSeconds(u) ==
  CASE u = "s" -> 1 [] u = "m" -> 60 [] u = "h" -> 3600 [] u = "d" -> 86400
    [] OTHER -> 0

IsUnit(tok) == ~tok.digits /\ Replaced(tok.word) \in {"s", "m", "h", "d"}

\* the matches of (\d+)\s*([smhd]): a number followed by a unit
Matches(toks) ==
  {i \in 1..(Len(toks) - 1) : toks[i].digits /\ IsUnit(toks[i + 1])}

RECURSIVE SumMatches(_, _)
SumMatches(toks, I) ==
  IF I = {} THEN 0
  ELSE LET i == CHOOSE j \in I : TRUE
       IN toks[i].n * UnitSeconds(Replaced(toks[i + 1].word))
          + SumMatches(toks, I \ {i})

\* Optional[int] is modelled with -1 for None
NoInt == -1

\* parse_duration_to_seconds (lines 630-658)
parse_duration_to_seconds(toks) ==
  IF Len(toks) = 0 THEN NoInt
  ELSE IF Len(toks) = 1 /\ toks[1].digits THEN toks[1].n
  ELSE IF Matches(toks) = {} THEN NoInt
  ELSE SumMatches(toks, Matches(toks))

\* cmd_automute line 1371: not (not sec or sec < 30 or sec > 86400)
DurationOk(sec) == ~(sec = NoInt \/ sec = 0 \/ sec < 30 \/ sec > 86400)

\* the duration arguments tried: bare numbers, unit forms, no match
Durations ==
  {<<Num(0)>>, <<Num(29)>>, <<Num(30)>>, <<Num(86401)>>, <<Word("x")>>,
   <<Num(4), Word("x")>>, <<Num(4), Word("h")>>,
   <<Num(2), Word("cyr_ch"), Num(30), Word("cyr_m")>>,
   <<Num(1), Word("d")>>, <<Num(2), Word("d")>>, <<Num(29), Word("s")>>}

\* ------------------------------------------------- tasks of the store
\* no task: _data_lock unlocked, the event loop between tasks
Free == 0

\* the _delayed task created i-th has the task id MaxWriters + i
DelayedId(i) == MaxWriters + i

\* the file does not exist; the file holds a part of a JSON text
NoFile == [missing |-> TRUE]

Torn == [torn |-> TRUE]

IsSnapshot(file) == "settings" \in DOMAIN file

\* what the tasks are started with: inline-keyboard presses, /automute,
\* activity updates (a message at time ts), and direct applications of
\* set_setting_local and set_role_local; user 1 is head_admin, user 2 is not
StoreInputs ==
  [kind : {"button"}, arg : {<<b>> : b \in Buttons}, actor : {1}]
  \cup [kind : {"button"}, arg : {<<"flood_inc">>, <<"wl_hint_add">>}, actor : {2}]
  \cup [kind : {"automute"}, arg : Durations \cup {<<>>}, actor : {1}]
  \cup [kind : {"automute"}, arg : {<<Num(4), Word("h")>>}, actor : {2}]
  \cup [kind : {"activity"}, arg : {<<1>>, <<2>>}, actor : {1}]
  \cup [kind : {"set_setting"}, arg : {<<"bogus">>, <<"block_links">>}, actor : {1}]
  \cup [kind : {"set_role"}, arg : {<<"king">>, <<"admin">>}, actor : {2}]

StoreChat == 1

WriterSrc(w) == <<"writer", w>>

PcOf(x) == IF x <= MaxWriters THEN writers[x].pc ELSE save_task[x - MaxWriters]

SetPc(x, pc) ==
  IF x <= MaxWriters
  THEN /\ writers' = [writers EXCEPT ![x].pc = pc]
       /\ UNCHANGED save_task
  ELSE /\ save_task' = [save_task EXCEPT ![x - MaxWriters] = pc]
       /\ UNCHANGED writers

\* a task that has applied a part of its update and not yet the rest
MidUpdate(w) ==
  /\ writers[w].pc \notin {"new", "lookup", "ready", "done", "raised"}
  /\ Len(writers[w].todo) > 0
  /\ Len(writers[w].todo) < Len(writers[w].plan)

Untouched == UNCHANGED <<status, jobs, clock, memVars, msgs, cmds, log, hist>>

\* a handler is called and runs to its first await (the role lookup); a
\* direct application is a task created and not yet run
StoreStartOf(w, inputs) ==
  /\ proc = "up"
  /\ writers[w].pc = "new"
  /\ IF w = 1 THEN TRUE ELSE writers[w - 1].pc # "new"
  /\ \E inp \in inputs :
       writers' = [writers EXCEPT ![w] =
         [pc |-> IF inp.kind \in {"button", "automute"} THEN "lookup" ELSE "ready",
          kind |-> inp.kind, arg |-> inp.arg, actor |-> inp.actor,
          plan |-> <<>>, todo |-> <<>>, pend |-> FALSE, conc |-> FALSE,
          unsaved |-> FALSE]]
  /\ UNCHANGED <<dataVars, disk, save_task, tmp, proc, lock, running, calls>>
  /\ Untouched

StoreStart(w) == StoreStartOf(w, StoreInputs)

StoreAnswer(w) ==
  calls' = calls \cup {Call(WriterSrc(w), "answer", StoreChat)}

\* call.data.startswith("tg:wl_") (line 1652)
IsWlButton(data) == data \in {"wl_hint_add"}

\* the writes the handler is going to make, or none when it answers and
\* returns: cb_settings lines 1652-1663 and cmd_automute lines 1360-1373
PlanOf(kind, arg, role) ==
  IF kind = "button"
  THEN IF IsWlButton(arg[1]) /\ ~wl_allowed(role) THEN <<>>
       ELSE IF ~can_use(role, "settings") THEN <<>>
       ELSE ButtonWrites(get_settings_local(StoreChat), arg[1])
  ELSE IF ~can_use(role, "automute") THEN <<>>
       ELSE IF Len(arg) = 0 THEN <<>>
       ELSE IF ~DurationOk(parse_duration_to_seconds(arg)) THEN <<>>
       ELSE << <<"action", "mute">>,
               <<"mute_seconds", parse_duration_to_seconds(arg)>> >>

\* another handler is suspended in its role lookup
OthersWaiting(w) == \E v \in 1..MaxWriters : v # w /\ writers[v].pc = "lookup"

\* the role lookup returns and the handler runs on
Resume(w) ==
  /\ proc = "up"
  /\ running = Free
  /\ writers[w].pc = "lookup"
  /\ \E o \in Outcomes :
       LET plan == PlanOf(writers[w].kind, writers[w].arg,
                          get_effective_role(o, StoreChat, writers[w].actor))
       IN IF Len(plan) = 0
          THEN /\ writers' = [writers EXCEPT ![w].pc = "done"]
               /\ StoreAnswer(w)
               /\ UNCHANGED running
          ELSE /\ writers' = [writers EXCEPT ![w].pc = "set", ![w].plan = plan,
                                             ![w].todo = plan,
                                             ![w].conc = OthersWaiting(w)]
               /\ running' = w
               /\ UNCHANGED calls
  /\ UNCHANGED <<dataVars, disk, save_task, tmp, proc, lock>>
  /\ Untouched

\* a direct application of set_setting_local(chat, field, True)
ApiSet(w) ==
  /\ proc = "up"
  /\ running = Free
  /\ writers[w].pc = "ready"
  /\ writers[w].kind = "set_setting"
  /\ writers' = [writers EXCEPT ![w].pc = "set",
                                ![w].plan = << <<writers[w].arg[1], TRUE>> >>,
                                ![w].todo = << <<writers[w].arg[1], TRUE>> >>]
  /\ running' = w
  /\ UNCHANGED <<dataVars, disk, save_task, tmp, proc, lock, calls>>
  /\ Untouched

FieldAllowedAny(field) == TRUE

\* set_setting_local lines 285-287
FieldAllowed(field) == field \in DOMAIN DEFAULT

set_field_fresh(rec, field, value) ==
  [f \in DOMAIN DEFAULT \cup {field} |-> IF f = field THEN value ELSE DEFAULT[f]]

\* DATA["settings"][ck][field] = value (line 291)
set_field(rec, field, value) ==
  [f \in DOMAIN rec \cup {field} |-> IF f = field THEN value ELSE rec[f]]

SaveYieldsAlways == TRUE

\* save_data has no await that suspends: _data_lock is never contended and
\* the file is written with blocking calls
SaveYields == FALSE

MayRun(x) == running = x \/ (SaveYields /\ running = Free)

\* set_setting_local (lines 284-292) up to its save_data
WriteField(w) ==
  /\ proc = "up"
  /\ MayRun(w)
  /\ writers[w].pc = "set"
  /\ LET field == writers[w].todo[1][1]
         value == writers[w].todo[1][2]
     IN IF ~FieldAllowed(field)
        THEN /\ writers' = [writers EXCEPT ![w].pc = "raised"]
             /\ running' = Free
             /\ UNCHANGED settings
        ELSE /\ settings' = [settings EXCEPT
                               ![StoreChat] = set_field(@, field, value)]
             /\ writers' = [writers EXCEPT ![w].pc = "save",
                                           ![w].todo = Tail(writers[w].todo)]
             /\ running' = w
  /\ UNCHANGED <<whitelist, roles, warns, activity, meta>>
  /\ UNCHANGED <<disk, save_task, tmp, proc, lock, calls>>
  /\ Untouched

\* set_role_local (lines 333-340) up to its save_data
ApiRole(w) ==
  /\ proc = "up"
  /\ running = Free
  /\ writers[w].pc = "ready"
  /\ writers[w].kind = "set_role"
  /\ IF writers[w].arg[1] \notin RoleNames
     THEN /\ writers' = [writers EXCEPT ![w].pc = "raised"]
          /\ UNCHANGED <<roles, running>>
     ELSE /\ roles' = [roles EXCEPT
                         ![<<StoreChat, writers[w].actor>>] = writers[w].arg[1]]
          /\ writers' = [writers EXCEPT ![w].pc = "save"]
          /\ running' = w
  /\ UNCHANGED <<settings, whitelist, warns, activity, meta>>
  /\ UNCHANGED <<disk, save_task, tmp, proc, lock, calls>>
  /\ Untouched

\* upsert_activity_local (lines 428-440) with its schedule_activity_save
Upsert(w) ==
  /\ proc = "up"
  /\ running = Free
  /\ writers[w].pc = "ready"
  /\ writers[w].kind = "activity"
  /\ activity' = [activity EXCEPT
                    ![StoreChat][writers[w].actor] = writers[w].arg[1]]
  /\ schedule_activity_save
  /\ writers' = [writers EXCEPT ![w].pc = "done",
                                ![w].pend = DelayedPending(save_task)]
  /\ UNCHANGED <<settings, whitelist, roles, warns, meta>>
  /\ UNCHANGED <<disk, tmp, proc, lock, running, calls>>
  /\ Untouched

\* _delayed (lines 421-423): the sleep is over
Fire(i) ==
  /\ proc = "up"
  /\ running = Free
  /\ i \in 1..Len(save_task)
  /\ save_task[i] = "sleeping"
  /\ save_task' = [save_task EXCEPT ![i] = "save"]
  /\ running' = DelayedId(i)
  /\ UNCHANGED <<dataVars, disk, tmp, proc, lock, writers, calls>>
  /\ Untouched

TaskIds == 1..(MaxWriters + Len(save_task))

\* save_data line 259: async with _data_lock
Acquire(x) ==
  /\ proc = "up"
  /\ MayRun(x)
  /\ PcOf(x) = "save"
  /\ lock = Free
  /\ lock' = x
  /\ running' = x
  /\ SetPc(x, "open")
  /\ UNCHANGED <<dataVars, disk, tmp, proc, calls>>
  /\ Untouched

LivePath == "live"

\* save_data line 260: the file json.dump writes to
TmpPath == "tmp"

\* save_data line 262: open(tmp, "w") truncates the file
OpenTmp(x) ==
  /\ proc = "up"
  /\ running = x
  /\ PcOf(x) = "open"
  /\ IF TmpPath = "tmp"
     THEN tmp' = Torn /\ UNCHANGED disk
     ELSE disk' = Torn /\ UNCHANGED tmp
  /\ SetPc(x, "dump")
  /\ UNCHANGED <<dataVars, proc, lock, running, calls>>
  /\ Untouched

\* save_data line 263: json.dump(DATA, f), and the file is closed
Dump(x) ==
  /\ proc = "up"
  /\ running = x
  /\ PcOf(x) = "dump"
  /\ IF TmpPath = "tmp"
     THEN /\ tmp' = Snapshot(settings, whitelist, roles, warns, activity, meta)
          /\ UNCHANGED disk
     ELSE /\ disk' = Snapshot(settings, whitelist, roles, warns, activity, meta)
          /\ UNCHANGED tmp
  /\ SetPc(x, "replace")
  /\ UNCHANGED <<dataVars, proc, lock, running, calls>>
  /\ Untouched

\* save_data line 264: os.replace(tmp, DATA_PATH)
Replace(x) ==
  /\ proc = "up"
  /\ running = x
  /\ PcOf(x) = "replace"
  /\ IF TmpPath = "tmp"
     THEN disk' = tmp /\ tmp' = NoFile
     ELSE UNCHANGED <<disk, tmp>>
  /\ SetPc(x, "release")
  /\ UNCHANGED <<dataVars, proc, lock, running, calls>>
  /\ Untouched

\* a failed save that drops what memory holds and falls back on the file
SaveLoses(x) ==
  /\ proc = "up"
  /\ running = x
  /\ PcOf(x) \in {"open", "dump", "replace"}
  /\ IsSnapshot(disk)
  /\ settings' = disk.settings /\ whitelist' = disk.whitelist
  /\ roles' = disk.roles /\ warns' = disk.warns
  /\ activity' = disk.activity /\ meta' = disk.meta
  /\ IF x <= MaxWriters
     THEN /\ writers' = [writers EXCEPT ![x].pc = "release", ![x].unsaved = TRUE]
          /\ UNCHANGED save_task
     ELSE SetPc(x, "release")
  /\ UNCHANGED <<disk, tmp, proc, lock, running, calls>>
  /\ Untouched

\* save_data lines 265-266: an OSError of open, dump or replace is
\* swallowed (unsaved is history: a save of the handler has failed)
SaveFails(x) ==
  /\ proc = "up"
  /\ running = x
  /\ PcOf(x) \in {"open", "dump", "replace"}
  /\ IF x <= MaxWriters
     THEN /\ writers' = [writers EXCEPT ![x].pc = "release", ![x].unsaved = TRUE]
          /\ UNCHANGED save_task
     ELSE SetPc(x, "release")
  /\ UNCHANGED <<dataVars, disk, tmp, proc, lock, running, calls>>
  /\ Untouched

\* the lock is released and save_data returns: the writer goes on to its
\* next set_setting_local, or answers and ends; _delayed ends
Release(x) ==
  /\ proc = "up"
  /\ running = x
  /\ PcOf(x) = "release"
  /\ lock' = Free
  /\ IF x > MaxWriters
     THEN /\ SetPc(x, "done")
          /\ running' = Free
          /\ UNCHANGED calls
     ELSE IF Len(writers[x].todo) > 0
     THEN /\ SetPc(x, "set")
          /\ running' = IF SaveYields THEN Free ELSE x
          /\ UNCHANGED calls
     ELSE /\ SetPc(x, "done")
          /\ running' = Free
          /\ IF writers[x].kind \in {"button", "automute"}
             THEN StoreAnswer(x) ELSE UNCHANGED calls
  /\ UNCHANGED <<dataVars, disk, tmp, proc>>
  /\ Untouched

\* the process is killed at any point
Crash ==
  /\ proc = "up"
  /\ proc' = "crashed"
  /\ UNCHANGED <<dataVars, disk, save_task, tmp, lock, running, writers, calls>>
  /\ Untouched

CancelSleeping(tasks) ==
  [i \in 1..Len(tasks) |-> IF tasks[i] = "sleeping" THEN "cancelled" ELSE tasks[i]]

\* main (lines 2420-2434): polling ends, the session is closed, and
\* asyncio.run cancels the tasks that are left
Stop ==
  /\ proc = "up"
  /\ running = Free
  /\ proc' = "stopped"
  /\ save_task' = CancelSleeping(save_task)
  /\ UNCHANGED <<dataVars, disk, tmp, lock, running, writers, calls>>
  /\ Untouched

\* ------------------------------------------------------- initial states
Plain == [role |-> None, status |-> "member", wl |-> FALSE]

Profiles ==
  { Plain,
    [role |-> "seeker", status |-> "member", wl |-> FALSE],
    [role |-> "moderator", status |-> "member", wl |-> FALSE],
    [role |-> None, status |-> "member", wl |-> TRUE],
    [role |-> None, status |-> "administrator", wl |-> FALSE],
    [role |-> None, status |-> "creator", wl |-> FALSE] }

\* a sender has any profile; the other users are ordinary members
ProfilesOf(k) == IF k[2] \in Senders THEN Profiles ELSE {Plain}

NoMeta == [forum |-> None, rules |-> None]

\* a file that does not exist
IdleWriter ==
  [pc |-> "new", kind |-> None, arg |-> <<>>, actor |-> 0, plan |-> <<>>,
   todo |-> <<>>, pend |-> FALSE, conc |-> FALSE, unsaved |-> FALSE]

\* the state the process starts from, with the album groups seen so far and
\* the time on the clock
InitSharedOf(albums, t0) ==
  /\ activity = [c \in Chats |-> [u \in Users |-> -1]]
  /\ meta = [c \in Chats |-> NoMeta]
  /\ disk = Snapshot(settings, whitelist, roles, warns, activity, meta)
  /\ save_task = <<>>
  /\ jobs = NoJobs
  /\ tmp = NoFile
  /\ proc = "up"
  /\ lock = Free
  /\ running = Free
  /\ writers = [w \in 1..MaxWriters |-> IdleWriter]
  /\ hist = <<>>
  /\ clock = t0
  /\ msg_times = [k \in Keys |-> <<>>]
  /\ sticker_times = [k \in Keys |-> <<>>]
  /\ gif_times = [k \in Keys |-> <<>>]
  /\ last_hash = [k \in Keys |-> <<"", 0>>]
  /\ album_seen = albums
  /\ log = [k \in Keys |-> <<>>]
  /\ calls = {}

InitShared == InitSharedOf([k \in Keys |-> <<>>], 0)

InitCommon ==
  /\ InitShared
  /\ msgs = [m \in 1..MaxMsgs |-> IdleMsg]

InitMod ==
  /\ settings \in [Chats -> SettingsChoices]
  /\ \E prof \in [Keys -> Profiles] :
       /\ \A k \in Keys : prof[k] \in ProfilesOf(k)
       /\ \A k \in Keys : prof[k] = Plain \/ settings[k[1]] = SettingsBase
       /\ roles = [k \in Keys |-> prof[k].role]
       /\ status = [k \in Keys |-> prof[k].status]
       /\ whitelist = [c \in Chats |-> {u \in Users : prof[<<c, u>>].wl}]
  /\ warns = [k \in Keys |-> 0]
  /\ cmds = [t \in 1..MaxCmds |-> IdleCmd]
  /\ InitCommon

NextMod ==
  \/ \E m \in 1..MaxMsgs : Receive(m)
  \/ \E m \in 1..MaxMsgs : RoleLookup(m)
  \/ \E m \in 1..MaxMsgs : MemberLookup(m)
  \/ \E m \in 1..MaxMsgs : ApplyDelete(m)
  \/ \E m \in 1..MaxMsgs : ApplyLog(m)
  \/ \E m \in 1..MaxMsgs : ApplyMute(m)
  \/ Tick

SpecMod == InitMod /\ [][NextMod]_vars

\* the platform statuses of a chat: members, of whom at most one is its
\* owner or an administrator
CmdStatuses ==
  {st \in [Keys -> {"member", "administrator", "creator"}] :
     \A k1, k2 \in Keys : (st[k1] # "member" /\ st[k2] # "member") => k1 = k2}

\* (every user carries two earlier warnings, so that a warn can be a third);
\* the stored roles at the start: any role short of creator, which only
\* /setrole by the owner assigns; users are interchangeable, so the
\* higher-numbered user is taken to hold the lower stored role
CmdRoles ==
  {ro \in [Keys -> (RoleNames \ {"creator"}) \cup {None}] :
     \A k1, k2 \in Keys :
       (k1[1] = k2[1] /\ k1[2] <= k2[2]) => ROLE_RANK(ro[k1]) >= ROLE_RANK(ro[k2])}

\* (of two users with the same stored role, the lower-numbered one is taken
\* to be the one with a platform rank)
InitCmd ==
  /\ settings = [c \in Chats |-> SettingsBase]
  /\ whitelist = [c \in Chats |-> {}]
  /\ roles \in CmdRoles
  /\ status \in CmdStatuses
  /\ \A k1, k2 \in Keys :
       (k1[1] = k2[1] /\ k1[2] < k2[2] /\ roles[k1] = roles[k2])
         => status[k2] = "member"
  /\ warns = [k \in Keys |-> 2]
  /\ cmds = [t \in 1..MaxCmds |-> IdleCmd]
  /\ InitCommon

NextCmd ==
  \/ \E t \in 1..MaxCmds : CmdStart(t)
  \/ \E t \in 1..MaxCmds : CmdReject(t)
  \/ \E t \in 1..MaxCmds : ModAuth(t)
  \/ \E t \in 1..MaxCmds : SetRole(t)
  \/ \E t \in 1..MaxCmds : DelRole(t)
  \/ \E t \in 1..MaxCmds : WlChange(t)
  \/ \E t \in 1..MaxCmds : AutoMute(t)
  \/ \E t \in 1..MaxCmds : SetMeta(t)
  \/ \E t \in 1..MaxCmds : View(t)
  \/ \E t \in 1..MaxCmds : LinkAuth(t)
  \/ \E t \in 1..MaxCmds : InviteLink(t)
  \/ \E t \in 1..MaxCmds : Copy(t)
  \/ \E t \in 1..MaxCmds : CopyDelete(t)
  \/ \E t \in 1..MaxCmds : Ecm1(t)
  \/ \E t \in 1..MaxCmds : Ecm2(t)
  \/ \E t \in 1..MaxCmds : Ecm3(t)
  \/ \E t \in 1..MaxCmds : Exec(t)
  \/ \E t \in 1..MaxCmds : KickUnban(t)
  \/ \E t \in 1..MaxCmds : WarnReply(t)
  \/ \E t \in 1..MaxCmds : WarnMute(t)

SpecCmd == InitCmd /\ [][NextCmd]_vars

\* warns against one user by staff who outrank them, from any earlier total
MaxWarns == 5

InitWarn ==
  /\ settings = [c \in Chats |-> SettingsBase]
  /\ whitelist = [c \in Chats |-> {}]
  /\ roles \in [Keys -> {None, "moderator", "admin"}]
  /\ status = [k \in Keys |-> "member"]
  /\ warns \in [Keys -> 0..MaxWarns]
  /\ cmds = [t \in 1..MaxCmds |-> IdleCmd]
  /\ InitCommon

NextWarn ==
  \/ \E t \in 1..MaxCmds : WarnStart(t)
  \/ \E t \in 1..MaxCmds : CmdReject(t)
  \/ \E t \in 1..MaxCmds : ModAuth(t)
  \/ \E t \in 1..MaxCmds : Ecm1(t)
  \/ \E t \in 1..MaxCmds : Ecm2(t)
  \/ \E t \in 1..MaxCmds : Ecm3(t)
  \/ \E t \in 1..MaxCmds : WarnReply(t)
  \/ \E t \in 1..MaxCmds : WarnMute(t)

SpecWarn == InitWarn /\ [][NextWarn]_vars

\* the store under settings presses, /automute, activity updates, crash and
\* stop; settings records the keyboard reaches from DEFAULT: every numeric
\* field at its lower bound, at its default, at its upper bound
SettingsLow ==
  [SettingsBase EXCEPT !.mute_seconds = 30, !.cleanup_days = 7]

SettingsHigh ==
  [DEFAULT EXCEPT !.flood_limit = 50, !.flood_window_sec = 120,
                  !.repeat_limit = 10, !.sticker_limit = 30, !.gif_limit = 30,
                  !.media_window_sec = 120, !.mute_seconds = 86400,
                  !.cleanup_days = 90, !.action = "delete"]

StoreProfiles == {DEFAULT, SettingsLow, SettingsHigh}

InitStore ==
  /\ settings \in [Chats -> StoreProfiles]
  /\ whitelist = [c \in Chats |-> {}]
  /\ roles = [k \in Keys |-> IF k[2] = 1 THEN "head_admin" ELSE "moderator"]
  /\ status = [k \in Keys |-> "member"]
  /\ warns = [k \in Keys |-> 0]
  /\ cmds = [t \in 1..MaxCmds |-> IdleCmd]
  /\ InitCommon

NextStore ==
  \/ \E w \in 1..MaxWriters : StoreStart(w)
  \/ \E w \in 1..MaxWriters : Resume(w)
  \/ \E w \in 1..MaxWriters : ApiSet(w)
  \/ \E w \in 1..MaxWriters : WriteField(w)
  \/ \E w \in 1..MaxWriters : ApiRole(w)
  \/ \E w \in 1..MaxWriters : Upsert(w)
  \/ \E i \in 1..Len(save_task) : Fire(i)
  \/ \E x \in TaskIds : Acquire(x)
  \/ \E x \in TaskIds : OpenTmp(x)
  \/ \E x \in TaskIds : Dump(x)
  \/ \E x \in TaskIds : Replace(x)
  \/ \E x \in TaskIds : SaveFails(x)
  \/ \E x \in TaskIds : Release(x)
  \/ Crash
  \/ Stop

SpecStore == InitStore /\ [][NextStore]_vars

\* ---- the debounced save while the process keeps running: messages of two
\* users at three times, no crash and no stop
FlushUpdates == [kind : {"activity"}, arg : {<<1>>, <<2>>, <<3>>}, actor : {1, 2}]

FlushStart(w) == StoreStartOf(w, FlushUpdates)

\* a step of a task that the event loop has to run: the sleep of _delayed is
\* over, or a save_data goes on
FlushRuns ==
  \/ \E i \in 1..Len(save_task) : Fire(i)
  \/ \E x \in TaskIds : Acquire(x)
  \/ \E x \in TaskIds : OpenTmp(x)
  \/ \E x \in TaskIds : Dump(x)
  \/ \E x \in TaskIds : Replace(x)
  \/ \E x \in TaskIds : Release(x)

NextFlush ==
  \/ \E w \in 1..MaxWriters : FlushStart(w)
  \/ \E w \in 1..MaxWriters : Upsert(w)
  \/ \E x \in TaskIds : SaveFails(x)
  \/ FlushRuns

\* the event loop runs every task that is ready, and asyncio.sleep(5) returns
SpecFlush == InitStore /\ [][NextFlush]_vars /\ WF_vars(FlushRuns)

\* =====================================================================
\* load_data and save_data over the text of the snapshot file
\* =====================================================================
\* a JSON text and a Python value are both trees: t is the kind of the node,
\* lit the literal of a leaf, items the <<key, value>> members in order
V(t, lit, items) == [t |-> t, lit |-> lit, items |-> items]

Leaf(t, lit) == V(t, lit, <<>>)

\* a file: missing, unreadable (open raises), garbage (not JSON), or a JSON
\* text in some layout
File(state, fmt, doc) == [state |-> state, fmt |-> fmt, doc |-> doc]

HasKey(items, key) == \E i \in 1..Len(items) : items[i][1] = key

\* dict(pairs): a key keeps the place of its first occurrence and the value
\* of its last
RECURSIVE Pairs(_)
Pairs(items) ==
  IF Len(items) = 0 THEN <<>>
  ELSE LET init == Pairs(SubSeq(items, 1, Len(items) - 1))
           last == items[Len(items)]
       IN IF HasKey(init, last[1])
          THEN [i \in 1..Len(init) |->
                  IF init[i][1] = last[1] THEN last ELSE init[i]]
          ELSE Append(init, last)

Get(items, key) == items[CHOOSE i \in 1..Len(items) : items[i][1] = key][2]

\* json.load: the value a JSON text denotes
RECURSIVE Parse(_)
Parse(tv) ==
  CASE tv.t = "obj" ->
         V("dict", "", Pairs([i \in 1..Len(tv.items) |->
                                <<tv.items[i][1], Parse(tv.items[i][2])>>]))
    [] tv.t = "num" ->
         IF tv.lit \in {"100"} THEN Leaf("int", "100") ELSE Leaf("float", "100.0")
    [] tv.t = "str" -> Leaf("str", tv.lit)
    [] tv.t = "arr" -> Leaf("list", "")
    [] OTHER -> Leaf("none", "")

ItemsReversed(items) == [i \in 1..Len(items) |-> items[Len(items) + 1 - i]]

\* json.dump writes the members of a dict in insertion order
DictItems(items) == items

\* json.dump: the JSON text of a value
RECURSIVE Unparse(_)
Unparse(pv) ==
  CASE pv.t = "dict" ->
         V("obj", "", [i \in 1..Len(pv.items) |->
                         <<DictItems(pv.items)[i][1],
                           Unparse(DictItems(pv.items)[i][2])>>])
    [] pv.t \in {"int", "float"} -> Leaf("num", pv.lit)
    [] pv.t = "str" -> Leaf("str", pv.lit)
    [] pv.t = "list" -> Leaf("arr", "")
    [] OTHER -> Leaf("null", "")

\* a lone surrogate cannot be written to a utf-8 file (ensure_ascii=False)
RECURSIVE Encodable(_)
Encodable(pv) ==
  IF pv.t = "dict" THEN \A i \in 1..Len(pv.items) : Encodable(pv.items[i][2])
  ELSE ~(pv.t = "str" /\ pv.lit = "surrogate")

\* the keys of DATA in their order (lines 213-220)
Namespaces == <<"settings", "meta", "roles", "warns", "activity", "whitelist">>

EmptyDict == V("dict", "", <<>>)

\* DATA as a function of the namespace name
DataOf(st, me, ro, wa, ac, wl) ==
  [k \in SeqRange(Namespaces) |->
     CASE k = "settings" -> st [] k = "meta" -> me [] k = "roles" -> ro
       [] k = "warns" -> wa [] k = "activity" -> ac [] OTHER -> wl]

DataNow == DataOf(settings, meta, roles, warns, activity, whitelist)

EmptyData == [k \in SeqRange(Namespaces) |-> EmptyDict]

EscapesAll(raised) == raised

\* load_data lines 254-255: except Exception: pass
Escapes(raised) == FALSE

\* open or json.load raises
ReadRaises(file) == file.state \in {"unreadable", "garbage"}

\* load_data (lines 242-255): DATA after the load
load_data(file, data) ==
  IF file.state # "json" THEN data
  ELSE LET obj == Parse(file.doc)
       IN IF obj.t # "dict" THEN data
          ELSE [k \in DOMAIN data |->
                  IF HasKey(obj.items, k) /\ Get(obj.items, k).t = "dict"
                  THEN Get(obj.items, k) ELSE data[k]]

\* what json.dump(DATA, f, indent=2) writes
DataText(data) ==
  File("json", "indent2",
       Unparse(V("dict", "", [i \in 1..Len(Namespaces) |->
                                <<Namespaces[i], data[Namespaces[i]]>>])))

MaxSaves == 3

LoadUntouched ==
  UNCHANGED <<save_task, lock, running, writers, status, jobs, clock, memVars, msgs,
              cmds, log, calls>>

\* main line 2421: await load_data()
Load ==
  /\ proc = "down"
  /\ IF Escapes(ReadRaises(disk))
     THEN /\ proc' = "dead"
          /\ UNCHANGED dataVars
     ELSE /\ proc' = "loaded"
          /\ LET data == load_data(disk, DataNow)
             IN /\ settings' = data["settings"]
                /\ meta' = data["meta"]
                /\ roles' = data["roles"]
                /\ warns' = data["warns"]
                /\ activity' = data["activity"]
                /\ whitelist' = data["whitelist"]
  /\ UNCHANGED <<disk, tmp, hist>>
  /\ LoadUntouched

\* the first save_data (lines 258-266) after the load, in one step; hist is
\* the live file after each
Save ==
  /\ proc = "loaded"
  /\ Len(hist) < MaxSaves
  /\ IF \A k \in DOMAIN DataNow : Encodable(DataNow[k])
     THEN /\ disk' = DataText(DataNow)
          /\ UNCHANGED tmp
     ELSE /\ tmp' = File("garbage", "indent2", Leaf("null", ""))
          /\ UNCHANGED disk
  /\ hist' = Append(hist, disk')
  /\ proc' = "up"
  /\ UNCHANGED dataVars
  /\ LoadUntouched

\* the process ends and is started again: DATA is the module's literal
Restart ==
  /\ proc \in {"loaded", "up"}
  /\ proc' = "down"
  /\ settings' = EmptyDict /\ meta' = EmptyDict /\ roles' = EmptyDict
  /\ warns' = EmptyDict /\ activity' = EmptyDict /\ whitelist' = EmptyDict
  /\ UNCHANGED <<disk, tmp, hist>>
  /\ LoadUntouched

\* the values a namespace has in the files tried: dicts (empty, two keys,
\* a repeated key with two spellings of one number, an unencodable string)
\* and non-dicts
NsTexts ==
  { V("obj", "", <<>>),
    V("obj", "", << <<"a", Leaf("num", "100")>>, <<"b", Leaf("str", "x")>> >>),
    V("obj", "", << <<"a", Leaf("num", "1e2")>>, <<"b", Leaf("null", "")>>,
                    <<"a", Leaf("num", "100.0")>> >>),
    V("obj", "", << <<"a", Leaf("str", "surrogate")>> >>),
    Leaf("arr", ""),
    Leaf("null", "") }

MemberNames == {"settings", "roles", "other"}

Members == {<<n, v>> : n \in MemberNames, v \in NsTexts}

Files ==
  { File("missing", "", Leaf("null", "")),
    File("unreadable", "", Leaf("null", "")),
    File("garbage", "", Leaf("null", "")),
    File("json", "compact", Leaf("arr", "")),
    File("json", "compact", Leaf("num", "100")) }
  \cup {File("json", "compact", V("obj", "", <<>>))}
  \cup {File("json", "compact", V("obj", "", <<m>>)) : m \in Members}
  \cup {File("json", "compact", V("obj", "", <<m1, m2>>)) : m1, m2 \in Members}

InitLoad ==
  /\ disk \in Files
  /\ proc = "down"
  /\ settings = EmptyDict /\ meta = EmptyDict /\ roles = EmptyDict
  /\ warns = EmptyDict /\ activity = EmptyDict /\ whitelist = EmptyDict
  /\ tmp = File("missing", "", Leaf("null", ""))
  /\ hist = <<>>
  /\ save_task = <<>>
  /\ lock = Free
  /\ running = Free
  /\ writers = [w \in 1..MaxWriters |-> IdleWriter]
  /\ status = [k \in Keys |-> "member"]
  /\ jobs = NoJobs
  /\ clock = 0
  /\ msg_times = [k \in Keys |-> <<>>]
  /\ sticker_times = [k \in Keys |-> <<>>]
  /\ gif_times = [k \in Keys |-> <<>>]
  /\ last_hash = [k \in Keys |-> <<"", 0>>]
  /\ album_seen = [k \in Keys |-> <<>>]
  /\ msgs = [m \in 1..MaxMsgs |-> IdleMsg]
  /\ cmds = [t \in 1..MaxCmds |-> IdleCmd]
  /\ log = [k \in Keys |-> <<>>]
  /\ calls = {}

NextLoad == Load \/ Save \/ Restart

SpecLoad == InitLoad /\ [][NextLoad]_vars

\* =====================================================================
\* get_effective_role and can_use applied to every input
\* =====================================================================
\* the privileged actions of can_use, and one it does not know
GateCmds ==
  {"invite", "warn", "mute", "unmute", "to_main", "ban", "unban", "kick",
   "setrole", "delrole", "automute", "setrules", "setforum", "settings",
   "inactive"}

\* a caller looks up a user's effective role and asks can_use for an action
RoleQuery(t) ==
  /\ cmds[t].pc = "new"
  /\ \A j \in 1..(t - 1) : cmds[j].pc # "new"
  /\ \E c \in Chats, u \in Users, o \in Outcomes, cmd \in GateCmds \cup {"other"} :
       LET role == get_effective_role(o, c, u)
       IN cmds' = [cmds EXCEPT ![t] =
                     [IdleCmd EXCEPT !.pc = "done", !.cmd = cmd, !.cid = c,
                                     !.actor = u, !.arole = role,
                                     !.tstat = IF o = "ok" THEN status[<<c, u>>]
                                               ELSE None,
                                     !.gate = IF can_use(role, cmd) THEN "passed"
                                              ELSE "rejected"]]
  /\ UNCHANGED <<dataVars, disk, save_task, storeVars, status, jobs, clock, memVars, msgs,
                 log, calls>>

\* stored roles: none, every role, and a string that is no role name
StoredRoles == RoleNames \cup {None, "king"}

InitRole ==
  /\ settings = [c \in Chats |-> DEFAULT]
  /\ whitelist = [c \in Chats |-> {}]
  /\ roles \in [Keys -> StoredRoles]
  /\ \A k \in Keys : k[2] # 1 => roles[k] = None
  /\ status \in [Keys -> {"member", "administrator", "creator", "left"}]
  /\ \A k \in Keys : k[2] # 1 => status[k] = "member"
  /\ warns = [k \in Keys |-> 0]
  /\ cmds = [t \in 1..MaxCmds |-> IdleCmd]
  /\ InitCommon

NextRole == \E t \in 1..MaxCmds : RoleQuery(t)

SpecRole == InitRole /\ [][NextRole]_vars

\* =====================================================================
\* moderate_all on a burst of messages of one ordinary member
\* =====================================================================
ScenMsgs == 4

\* seconds: the whole burst falls within five seconds
ScenTimes == {0, 5}

\* flood_limit = 3, flood_window_sec = 10, action mute or delete, the
\* other settings at their defaults
ScenSettings ==
  { [DEFAULT EXCEPT !.flood_limit = 3, !.flood_window_sec = 10],
    [DEFAULT EXCEPT !.flood_limit = 3, !.flood_window_sec = 10, !.action = "delete"] }

\* plain texts, one of them a link
ScenShapes ==
  { [sticker |-> FALSE, animation |-> FALSE, mgid |-> 0, text |-> t] :
      t \in {<<"a">>, <<"b">>, <<"www.", "a">>} }

\* the burst is handled one message after the other
ScenInFlight == 1

ScenReceive(m) == ReceiveOf(m, ScenShapes, ScenInFlight)

ScenTick == TickOf(ScenTimes)

InitBurst(choices, n) ==
  /\ settings \in [Chats -> choices]
  /\ roles = [k \in Keys |-> Plain.role]
  /\ status = [k \in Keys |-> Plain.status]
  /\ whitelist = [c \in Chats |-> {}]
  /\ warns = [k \in Keys |-> 0]
  /\ cmds = [t \in 1..MaxCmds |-> IdleCmd]
  /\ InitShared
  /\ msgs = [m \in 1..n |-> IdleMsg]

InitScen == InitBurst(ScenSettings, ScenMsgs)

NextScen ==
  \/ \E m \in 1..ScenMsgs : ScenReceive(m)
  \/ \E m \in 1..ScenMsgs : RoleLookup(m)
  \/ \E m \in 1..ScenMsgs : MemberLookup(m)
  \/ \E m \in 1..ScenMsgs : ApplyDelete(m)
  \/ \E m \in 1..ScenMsgs : ApplyLog(m)
  \/ \E m \in 1..ScenMsgs : ApplyMute(m)
  \/ \E m \in 1..ScenMsgs : ApplyRaise(m)
  \/ ScenTick

SpecScen == InitScen /\ [][NextScen]_vars

\* =====================================================================
\* moderate_all on stickers and animations of one ordinary member
\* =====================================================================
MediaMsgs == 3

\* seconds: three messages within one second, and a moment after the window
MediaTimes == {0, 1, 20}

\* sticker_limit = 2 and media_window_sec = 12 under each of the three modes
MediaSettings ==
  { [DEFAULT EXCEPT !.sticker_limit = 2, !.gif_limit = 2, !.media_window_sec = 12,
                    !.sticker_mode = MediaModes[i], !.gif_mode = MediaModes[i]] : i \in 1..Len(MediaModes) }

MediaShapes ==
  { [sticker |-> TRUE, animation |-> FALSE, mgid |-> 0, text |-> <<>>],
    [sticker |-> FALSE, animation |-> TRUE, mgid |-> 0, text |-> <<>>],
    [sticker |-> FALSE, animation |-> FALSE, mgid |-> 0, text |-> <<"a">>] }

MediaReceive(m) == ReceiveOf(m, MediaShapes, MaxInFlight)

MediaTick == TickOf(MediaTimes)

InitMedia == InitBurst(MediaSettings, MediaMsgs)

NextMedia ==
  \/ \E m \in 1..MediaMsgs : MediaReceive(m)
  \/ \E m \in 1..MediaMsgs : RoleLookup(m)
  \/ \E m \in 1..MediaMsgs : MemberLookup(m)
  \/ \E m \in 1..MediaMsgs : ApplyDelete(m)
  \/ \E m \in 1..MediaMsgs : ApplyLog(m)
  \/ \E m \in 1..MediaMsgs : ApplyMute(m)
  \/ MediaTick

SpecMedia == InitMedia /\ [][NextMedia]_vars

\* =====================================================================
\* moderate_all on the messages of two ordinary members of one chat
\* =====================================================================
FrameMsgs == 3

\* two messages within one second
FrameTimes == {0, 1}

\* limits of one, so that the second message of a category is over the limit
FrameSettings ==
  { [DEFAULT EXCEPT !.flood_limit = 1, !.sticker_limit = 1, !.gif_limit = 1,
                    !.sticker_mode = "limit", !.gif_mode = "limit"] }

\* one message of each category and an album element
FrameShapes ==
  { [sticker |-> FALSE, animation |-> FALSE, mgid |-> 0, text |-> <<"a">>],
    [sticker |-> TRUE, animation |-> FALSE, mgid |-> 0, text |-> <<>>],
    [sticker |-> FALSE, animation |-> TRUE, mgid |-> 0, text |-> <<>>],
    [sticker |-> FALSE, animation |-> FALSE, mgid |-> 1, text |-> <<>>] }

FrameReceive(m) == ReceiveFrom(m, FrameShapes, MaxInFlight, Users)

FrameTick == TickOf(FrameTimes)

InitFrame == InitBurst(FrameSettings, FrameMsgs)

NextFrame ==
  \/ \E m \in 1..FrameMsgs : FrameReceive(m)
  \/ \E m \in 1..FrameMsgs : RoleLookup(m)
  \/ \E m \in 1..FrameMsgs : MemberLookup(m)
  \/ \E m \in 1..FrameMsgs : ApplyDelete(m)
  \/ \E m \in 1..FrameMsgs : ApplyLog(m)
  \/ \E m \in 1..FrameMsgs : ApplyMute(m)
  \/ FrameTick

SpecFrame == InitFrame /\ [][NextFrame]_vars

\* ---- albums of one user whose album table is nearly full
AlbumMsgs == 2

\* the groups seen before: ids 1..n, stamped in the order they were seen,
\* within one second, against that order (an element whose lookup took
\* longer is entered later with its earlier timestamp), or in runs
AlbumStamps == {"asc", "flat", "desc", "runs"}

Stamp(p, i) ==
  IF p = "asc" THEN i
  ELSE IF p = "flat" THEN 300
  ELSE IF p = "desc" THEN 301 - i
  ELSE 100 * (i % 3) + (i \div 3)

SeenBefore(p, n) == [i \in 1..n |-> <<i, Stamp(p, i)>>]

\* one below the cap: the next new album fills it, the one after exceeds it
AlbumFill == {AlbumCap - 1}

\* the clock when the model starts and a later second
AlbumTimes == {400, 401}

\* an element of a new album, or of an album seen before
AlbumShapes ==
  { [sticker |-> FALSE, animation |-> FALSE, mgid |-> g, text |-> <<>>] :
      g \in {2, AlbumCap + 1, AlbumCap + 2} }

AlbumReceive(m) == ReceiveOf(m, AlbumShapes, MaxInFlight)

AlbumTick == TickOf(AlbumTimes)

InitAlbum ==
  /\ settings = [c \in Chats |-> DEFAULT]
  /\ roles = [k \in Keys |-> Plain.role]
  /\ status = [k \in Keys |-> Plain.status]
  /\ whitelist = [c \in Chats |-> {}]
  /\ warns = [k \in Keys |-> 0]
  /\ cmds = [t \in 1..MaxCmds |-> IdleCmd]
  /\ \E p \in AlbumStamps, n \in AlbumFill :
       InitSharedOf([k \in Keys |-> IF k = <<1, 1>> THEN SeenBefore(p, n) ELSE <<>>],
                    400)
  /\ msgs = [m \in 1..AlbumMsgs |-> IdleMsg]

NextAlbum ==
  \/ \E m \in 1..AlbumMsgs : AlbumReceive(m)
  \/ \E m \in 1..AlbumMsgs : RoleLookup(m)
  \/ \E m \in 1..AlbumMsgs : MemberLookup(m)
  \/ AlbumTick

SpecAlbum == InitAlbum /\ [][NextAlbum]_vars

\* =====================================================================
\* moderate_all while the settings keyboard changes the flood settings
\* =====================================================================
HotButtons == {"flood_inc", "flood_dec", "window_inc", "window_dec"}

\* the writes of a button applied one after the other
RECURSIVE ApplyWrites(_, _)
ApplyWrites(s, ws) ==
  IF ws = <<>> THEN s
  ELSE ApplyWrites(set_field(s, ws[1][1], ws[1][2]), Tail(ws))

\* cb_settings (lines 1643-1837) from the return of its role lookup to the
\* end of set_setting_local: the gate, the read of the settings, the
\* assignment and save_data run without suspension
HotPress(t) ==
  /\ cmds[t].pc = "new"
  /\ \A j \in 1..(t - 1) : cmds[j].pc # "new"
  /\ \E c \in Chats, u \in Users, o \in Outcomes, data \in HotButtons :
       LET role == get_effective_role(o, c, u)
           rec == [IdleCmd EXCEPT !.pc = "done", !.cmd = data, !.cid = c, !.actor = u,
                                  !.arole = role]
       IN IF can_use(role, "settings")
          THEN /\ settings' = [settings EXCEPT
                                 ![c] = ApplyWrites(@, ButtonWrites(get_settings_local(c), data))]
               /\ cmds' = [cmds EXCEPT ![t] = [rec EXCEPT !.gate = "passed"]]
               /\ calls' = calls \cup {Call(CmdSrc(t), "save", c)}
          ELSE /\ cmds' = [cmds EXCEPT ![t] = [rec EXCEPT !.gate = "rejected"]]
               /\ calls' = calls \cup {Call(CmdSrc(t), "answer", c)}
               /\ UNCHANGED settings
  /\ UNCHANGED <<whitelist, roles, warns, activity, meta>>
  /\ save_data
  /\ UNCHANGED <<save_task, storeVars, status, jobs, clock, memVars, msgs, log>>

HotShapes ==
  { [sticker |-> FALSE, animation |-> FALSE, mgid |-> 0, text |-> t] :
      t \in {<<"a">>} }

HotReceive(m) == ReceiveOf(m, HotShapes, MaxInFlight)

\* the sender is an ordinary member, the other user a head admin
InitHot ==
  /\ settings \in [Chats -> {[DEFAULT EXCEPT !.flood_limit = 2, !.flood_window_sec = 3]}]
  /\ roles = [k \in Keys |-> IF k[2] \in Senders THEN None ELSE "head_admin"]
  /\ status = [k \in Keys |-> "member"]
  /\ whitelist = [c \in Chats |-> {}]
  /\ warns = [k \in Keys |-> 0]
  /\ cmds = [t \in 1..MaxCmds |-> IdleCmd]
  /\ InitCommon

NextHot ==
  \/ \E m \in 1..MaxMsgs : HotReceive(m)
  \/ \E m \in 1..MaxMsgs : RoleLookup(m)
  \/ \E m \in 1..MaxMsgs : MemberLookup(m)
  \/ \E m \in 1..MaxMsgs : ApplyDelete(m)
  \/ \E m \in 1..MaxMsgs : ApplyLog(m)
  \/ \E m \in 1..MaxMsgs : ApplyMute(m)
  \/ \E t \in 1..MaxCmds : HotPress(t)
  \/ Tick

SpecHot == InitHot /\ [][NextHot]_vars

\* =====================================================================
\* The inactivity sweep and the background loops
\* =====================================================================
SweepChats == {1, 2}
SweepKeys == SweepChats \X Users

\* 24 * 3600 (line 1123)
SweepDay == 86400

ACTIVITY_KEEP_DAYS == 180
ACTIVITY_MAX_PER_CHAT == 20000

\* time.time() when the model starts
SweepNow == 30 * SweepDay

\* a transport call returns, raises TelegramBadRequest, or raises another
\* transport error (TelegramRetryAfter, TelegramForbiddenError, ...)
SweepOutcomes == {"ok", "bad", "other"}

\* one entry of what an iteration did: the start of a sweep, a user it
\* enumerated, a transport call and how it ended
Step(op, c, u, out) == [op |-> op, cid |-> c, uid |-> u, out |-> out]

\* rows.sort(key=ts): the users in the order of their timestamps (the sort
\* is stable; equal timestamps keep the order of the dict, here of the ids)
SortByTs(c, us) ==
  LET sorted[rest \in SUBSET Users] ==
        IF rest = {} THEN <<>>
        ELSE LET u == CHOOSE x \in rest :
                        \A y \in rest :
                          \/ activity[c][x] < activity[c][y]
                          \/ activity[c][x] = activity[c][y] /\ x <= y
             IN <<u>> \o sorted[rest \ {u}]
  IN sorted[us]

\* fetch_inactive_local (lines 483-498): the tracked users last seen before
\* the cutoff
fetch_inactive_all(c, cutoff) ==
  SortByTs(c, {u \in Users : activity[c][u] # -1})

fetch_inactive_local(c, cutoff) ==
  SortByTs(c, {u \in Users : activity[c][u] # -1 /\ activity[c][u] < cutoff})

\* cutoff = int(time.time()) - int(s.cleanup_days) * 24 * 3600 (line 1123)
SweepCutoff(s) == clock - s.cleanup_days * SweepDay

RowSteps(c, rows) == [i \in 1..Len(rows) |-> Step("row", c, rows[i], None)]

\* run_cleanup_once up to its first await (lines 1122-1132)
BeginRun(job, c) ==
  LET s == get_settings_local(c)
      rows == fetch_inactive_local(c, SweepCutoff(s))
  IN [job EXCEPT !.cid = c, !.s = s, !.rows = rows, !.pc = "lookup",
                 !.trace = @ \o <<Step("run", c, 0, None)>> \o RowSteps(c, rows)]

\* "for chat_id in chats: try: await run_cleanup_once(...)" (lines 1161-1165):
\* a sweep without rows returns without suspending, and after the last chat
\* the loop sleeps
RECURSIVE NextChat(_)
NextChat(job) ==
  IF job.chats = <<>> THEN [job EXCEPT !.pc = "sleep", !.cid = 0, !.rows = <<>>,
                                       !.s = DEFAULT]
  ELSE CHOOSE next \in {IF run.rows = <<>> THEN NextChat(run) ELSE run :
                          run \in {BeginRun([job EXCEPT !.chats = Tail(@)],
                                            Head(job.chats))}} : TRUE

\* run_cleanup_once has returned or raised
EndRun(j, job) ==
  IF j = "cleanup_loop" THEN NextChat(job)
  ELSE [job EXCEPT !.pc = "done", !.cid = 0, !.rows = <<>>, !.s = DEFAULT]

Uncaught(job) == [job EXCEPT !.pc = "dead"]

\* "except Exception: pass" (lines 570 and 1164; line 1836 for the button)
Caught(job) == [job EXCEPT !.failed = TRUE]

\* an exception leaves run_cleanup_once
RunRaised(j, job) ==
  LET job1 == Caught(job)
  IN IF job1.pc = "dead" THEN job1 ELSE EndRun(j, job1)

\* "continue", or the end of the for body (lines 1129-1144)
AfterUser(j, job) ==
  IF Len(job.rows) > 1 THEN [job EXCEPT !.rows = Tail(@), !.pc = "lookup"]
  ELSE EndRun(j, job)

SweepFrame ==
  UNCHANGED <<dataVars, disk, save_task, storeVars, status, clock, memVars, msgs,
              cmds, log, calls>>

Sweeping(j) == jobs[j].pc \in {"lookup", "ban", "unban"}

Logged(j, op, o) ==
  [jobs[j] EXCEPT !.trace = Append(@, Step(op, jobs[j].cid, jobs[j].rows[1], o))]

SkipStatuses == {"administrator", "creator", "left", "kicked"}

\* member = await bot.get_chat_member(chat_id, user_id) (lines 1132-1134)
SweepLookup(j) ==
  /\ jobs[j].pc = "lookup"
  /\ \E o \in SweepOutcomes :
       LET job == Logged(j, "lookup", o)
           st == status[<<job.cid, job.rows[1]>>]
       IN jobs' = [jobs EXCEPT ![j] =
                     IF o = "other" THEN RunRaised(j, job)
                     ELSE IF o = "bad" \/ st \in SkipStatuses THEN AfterUser(j, job)
                     ELSE [job EXCEPT !.pc = "ban"]]
  /\ SweepFrame

\* await bot.ban_chat_member(chat_id, user_id) (lines 1136-1139)
SweepBan(j) ==
  /\ jobs[j].pc = "ban"
  /\ \E o \in SweepOutcomes :
       LET job == Logged(j, "ban", o)
       IN jobs' = [jobs EXCEPT ![j] =
                     IF o = "other" THEN RunRaised(j, job)
                     ELSE IF o = "bad" \/ job.s.cleanup_mode = "ban" THEN AfterUser(j, job)
                     ELSE [job EXCEPT !.pc = "unban"]]
  /\ SweepFrame

\* await bot.unban_chat_member(chat_id, user_id) (line 1140)
SweepUnban(j) ==
  /\ jobs[j].pc = "unban"
  /\ \E o \in SweepOutcomes :
       LET job == Logged(j, "unban", o)
       IN jobs' = [jobs EXCEPT ![j] =
                     IF o = "other" THEN RunRaised(j, job) ELSE AfterUser(j, job)]
  /\ SweepFrame

\* the chats with cleanup_enabled, in the order of DATA["settings"]
RECURSIVE EnabledChats(_)
EnabledChats(cs) ==
  IF cs = {} THEN <<>>
  ELSE LET c == CHOOSE x \in cs : \A y \in cs : x <= y
       IN (IF get_settings_local(c).cleanup_enabled THEN <<c>> ELSE <<>>)
          \o EnabledChats(cs \ {c})

\* the iteration that ended: the loop task is created, or its sleep is over
Iteration(job) ==
  [job EXCEPT !.iter = 1 - @, !.failed = FALSE, !.trace = <<>>,
              !.last = IF job.pc = "start" THEN None
                       ELSE IF job.failed THEN "failed" ELSE "ok"]

\* cleanup_loop (lines 1149-1167): the top of "while True" up to the first
\* await of the iteration
CleanupIter ==
  /\ jobs["cleanup_loop"].pc \in {"start", "sleep"}
  /\ \E job \in {[Iteration(jobs["cleanup_loop"])
                      EXCEPT !.chats = EnabledChats(DOMAIN settings)]} :
       jobs' = [jobs EXCEPT !["cleanup_loop"] = NextChat(job)]
  /\ SweepFrame

\* items (lines 538-545): the last_ts of the records of chat c as a list,
\* in the order of the dict, which is here the order of the ids
Items(c) == SubSeq(activity[c], 1, Len(activity[c]))

\* items.sort(key=ts, reverse=True) (line 547): the records that the sort
\* puts before that of u are the newer ones and, the sort being stable, the
\* equally old ones that come earlier in the dict
Before(items, u) ==
  {x \in 1..Len(items) :
     \/ items[x] > items[u]
     \/ items[x] = items[u] /\ x < u}

\* the first retention rule alone
KeptRecent(items, u) == items[u] >= clock - ACTIVITY_KEEP_DAYS * SweepDay

\* keep_keys (lines 549-555): a record is kept when it is recent or among
\* the first ACTIVITY_MAX_PER_CHAT of the sorted items
Kept(items, u) ==
  \/ items[u] >= clock - ACTIVITY_KEEP_DAYS * SweepDay
  \/ Cardinality(Before(items, u)) < ACTIVITY_MAX_PER_CHAT

\* prune_activity_once (lines 526-563): DATA["activity"] without the
\* records that are not kept
Pruned ==
  [c \in DOMAIN activity |->
     LET items == Items(c)
     IN [u \in DOMAIN activity[c] |->
           IF items[u] # -1 /\ ~Kept(items, u) THEN -1 ELSE items[u]]]

\* prune_activity_loop (lines 566-572): one iteration, which has no
\* suspension, up to the sleep; an exception in it is caught
PruneIter ==
  /\ jobs["prune_loop"].pc \in {"start", "sleep"}
  /\ \E o \in {"ok", "raise"} :
       LET job == Iteration(jobs["prune_loop"])
       IN IF o = "raise"
          THEN /\ jobs' = [jobs EXCEPT !["prune_loop"] =
                             LET job1 == Caught(job)
                             IN IF job1.pc = "dead" THEN job1
                                ELSE [job1 EXCEPT !.pc = "sleep"]]
               /\ UNCHANGED <<activity, disk>>
          ELSE /\ jobs' = [jobs EXCEPT !["prune_loop"] = [job EXCEPT !.pc = "sleep"]]
               /\ activity' = Pruned
               /\ disk' = IF activity' # activity
                          THEN Snapshot(settings, whitelist, roles, warns, activity', meta)
                          ELSE disk
  /\ UNCHANGED <<settings, whitelist, roles, warns, meta, save_task, storeVars,
                 status, clock, memVars, msgs, cmds, log, calls>>

\* cb_settings with tg:cleanup_run_now (lines 1828-1832): the sweep of the
\* chat of the keyboard, started by whoever passes the settings gate
RunNow ==
  /\ jobs["run_now"].pc = "start"
  /\ \E c \in SweepChats, u \in Users, o \in Outcomes :
       jobs' = [jobs EXCEPT !["run_now"] =
                  IF can_use(get_effective_role(o, c, u), "settings")
                  THEN LET run == BeginRun(@, c)
                       IN IF run.rows = <<>> THEN EndRun("run_now", run) ELSE run
                  ELSE [@ EXCEPT !.pc = "done"]]
  /\ SweepFrame

\* moderation is switched off in the swept chats: a message only refreshes
\* the sender's activity
SweepMsgs == 1

SweepShapes == {[sticker |-> FALSE, animation |-> FALSE, mgid |-> 0, text |-> <<"a">>]}

SweepReceive(m) == ReceiveOf(m, SweepShapes, 1)

SweepSettings(on, mode) ==
  [DEFAULT EXCEPT !.enabled = FALSE, !.cleanup_enabled = on, !.cleanup_days = 7,
                  !.cleanup_mode = mode]

\* last seen 28 and 27 days ago, or a day ago
Stale1 == SweepNow - 28 * SweepDay
Stale2 == SweepNow - 27 * SweepDay
Fresh == SweepNow - SweepDay

InitSweepOf(ons, modes, stats, seen) ==
  /\ \E on \in ons, mode \in modes :
       settings = [c \in SweepChats |-> IF c = 1 THEN SweepSettings(on, mode)
                                        ELSE SweepSettings(TRUE, "kick")]
  /\ \E a \in seen :
       activity = [c \in SweepChats |-> [u \in Users |->
                     IF <<c, u>> = <<1, 1>> THEN Stale1
                     ELSE IF <<c, u>> = <<1, 2>> THEN a
                     ELSE IF <<c, u>> = <<2, 1>> THEN Stale1 ELSE -1]]
  /\ \E st \in stats :
       status = [k \in SweepKeys |-> IF k = <<1, 2>> THEN st ELSE "member"]
  /\ roles = [k \in SweepKeys |-> IF k = <<1, 2>> THEN "head_admin" ELSE None]
  /\ whitelist = [c \in SweepChats |-> {}]
  /\ warns = [k \in SweepKeys |-> 0]
  /\ meta = [c \in SweepChats |-> NoMeta]
  /\ disk = Snapshot(settings, whitelist, roles, warns, activity, meta)
  /\ save_task = <<>>
  /\ jobs = [j \in JobNames |-> [IdleJob EXCEPT !.pc = "start"]]
  /\ tmp = NoFile
  /\ proc = "up"
  /\ lock = Free
  /\ running = Free
  /\ writers = [w \in 1..MaxWriters |-> IdleWriter]
  /\ hist = <<>>
  /\ clock = SweepNow
  /\ msg_times = [k \in Keys |-> <<>>]
  /\ sticker_times = [k \in Keys |-> <<>>]
  /\ gif_times = [k \in Keys |-> <<>>]
  /\ last_hash = [k \in Keys |-> <<"", 0>>]
  /\ album_seen = [k \in Keys |-> <<>>]
  /\ msgs = [m \in 1..SweepMsgs |-> IdleMsg]
  /\ cmds = [t \in 1..MaxCmds |-> IdleCmd]
  /\ log = [k \in Keys |-> <<>>]
  /\ calls = {}

\* the second user of chat 1 is a member, holds a platform rank or has left
InitSweep ==
  InitSweepOf({TRUE, FALSE}, {"kick", "ban"}, {"member", "administrator", "left"},
              {Stale2, Fresh})

NextSweep ==
  \/ CleanupIter
  \/ \E j \in {"cleanup_loop", "run_now"} : SweepLookup(j)
  \/ \E j \in {"cleanup_loop", "run_now"} : SweepBan(j)
  \/ \E j \in {"cleanup_loop", "run_now"} : SweepUnban(j)
  \/ RunNow
  \/ \E m \in 1..SweepMsgs : SweepReceive(m)

SpecSweep == InitSweep /\ [][NextSweep]_vars

\* ---- the two loops alone, scheduled fairly: the event loop runs every
\* task that is ready, a transport call returns or raises within the
\* session's timeout, and asyncio.sleep returns
InitLoops == InitSweepOf({TRUE}, {"kick"}, {"member"}, {Fresh})

CleanupStep ==
  \/ CleanupIter
  \/ SweepLookup("cleanup_loop")
  \/ SweepBan("cleanup_loop")
  \/ SweepUnban("cleanup_loop")

NextLoops ==
  \/ CleanupStep
  \/ PruneIter
  \/ \E m \in 1..SweepMsgs : SweepReceive(m)

SpecLoops ==
  InitLoops /\ [][NextLoops]_vars /\ WF_vars(CleanupStep) /\ WF_vars(PruneIter)

\* ---- pruning in a chat with about ACTIVITY_MAX_PER_CHAT tracked users
PruneMsgs == 2

\* time.time() when the model starts, and a day later
PruneNow == 400 * SweepDay
PruneTimes == {PruneNow, PruneNow + SweepDay}

\* last seen 390 or 380 days ago (before the cutoff), or yesterday
Old1 == PruneNow - 390 * SweepDay
Old2 == PruneNow - 380 * SweepDay
Recent == PruneNow - SweepDay

\* the chat tracks the cap, one more or two more users
PruneSizes == {ACTIVITY_MAX_PER_CHAT + d : d \in 0..2}

\* when the first two users of the chat were last seen: both long ago in
\* either order or at the same second, or one of them yesterday; every
\* other user was seen yesterday
PruneStarts ==
  {<<Old1, Old2>>, <<Old2, Old1>>, <<Old1, Old1>>, <<Old1, Recent>>}

\* the first two users of the dict were last seen at any of the three
\* times, everybody else yesterday
InitPrune ==
  /\ settings = [c \in Chats |-> SweepSettings(FALSE, "kick")]
  /\ roles = [k \in Keys |-> None]
  /\ status = [k \in Keys |-> "member"]
  /\ whitelist = [c \in Chats |-> {}]
  /\ warns = [k \in Keys |-> 0]
  /\ meta = [c \in Chats |-> NoMeta]
  /\ \E n \in PruneSizes, ab \in PruneStarts :
       activity = [c \in Chats |-> [u \in 1..n |->
                     IF u <= 2 THEN ab[u] ELSE Recent]]
  /\ disk = Snapshot(settings, whitelist, roles, warns, activity, meta)
  /\ save_task = <<>>
  /\ jobs = [j \in JobNames |-> [IdleJob EXCEPT !.pc = "start"]]
  /\ tmp = NoFile
  /\ proc = "up"
  /\ lock = Free
  /\ running = Free
  /\ writers = [w \in 1..MaxWriters |-> IdleWriter]
  /\ hist = <<>>
  /\ clock = PruneNow
  /\ msg_times = [k \in Keys |-> <<>>]
  /\ sticker_times = [k \in Keys |-> <<>>]
  /\ gif_times = [k \in Keys |-> <<>>]
  /\ last_hash = [k \in Keys |-> <<"", 0>>]
  /\ album_seen = [k \in Keys |-> <<>>]
  /\ msgs = [m \in 1..PruneMsgs |-> IdleMsg]
  /\ cmds = [t \in 1..MaxCmds |-> IdleCmd]
  /\ log = [k \in Keys |-> <<>>]
  /\ calls = {}

PruneReceive(m) == ReceiveOf(m, SweepShapes, 1)

PruneTick == TickOf(PruneTimes)

NextPrune ==
  \/ PruneIter
  \/ \E m \in 1..PruneMsgs : PruneReceive(m)
  \/ PruneTick

SpecPrune == InitPrune /\ [][NextPrune]_vars

\* =====================================================================
\* Properties of the moderation pipeline (SpecMod)
\* =====================================================================
LogOf(k, cat) == SelectSeq(log[k], LAMBDA e : e.cat = cat)

RateCats == {"message", "sticker", "animation"}

\* Q[j..i] is a sequence of events recorded one after the other under one
\* limit and window, all inside one window, every earlier event outside it
OneWindowRun(Q, j, i) ==
  /\ \A x \in j..i : Q[x].L = Q[i].L /\ Q[x].W = Q[i].W
  /\ \A x, y \in j..i : Q[x].ts - Q[y].ts <= Q[i].W
  /\ \A e \in 1..(j - 1) : \A x \in j..i : Q[x].ts - Q[e].ts > Q[i].W

TextLog(k) == LogOf(k, "message")

\* the entries that reached the duplicate check
DupLog(k) == SelectSeq(log[k], LAMBDA e : e.cat = "message" /\ e.dup)

\* length of the run of equal normalized texts that ends at Q[i]
RECURSIVE RunLen(_, _)
RunLen(Q, i) ==
  IF i = 1 THEN 1
  ELSE IF Q[i - 1].tnorm = Q[i].tnorm THEN RunLen(Q, i - 1) + 1 ELSE 1

HasRepeat(e) == e.reasons = <<"repeat">>

\* the messages were checked in the order they arrived
InArrivalOrder(Q) == \A i \in 2..Len(Q) : Q[i - 1].m < Q[i].m

\* C2 as stated: the repeat violation fires on no occurrence earlier than the
\* repeat_limit-th of a run of equal normalized texts, where any differing
\* text message of the user in between restarts the run at 1 (looked at only
\* when the user's text messages were checked in the order they arrived).
C2_Original ==
  \A k \in Keys :
    LET Q == TextLog(k)
    IN InArrivalOrder(Q) =>
         \A i \in 1..Len(Q) : HasRepeat(Q[i]) => RunLen(Q, i) >= Q[i].rl

\* C2 amended: among the messages that reach the duplicate check (non-empty
\* normalized text, neither a flood nor a link violation), in the order they
\* reach it, the repeat violation fires on the repeat_limit-th consecutive
\* occurrence of a normalized text and on no earlier one; a differing message
\* that reaches the check restarts the run at 1, and a message that does not
\* reach the check never fires it and leaves the run as it was.
C2_Repeat ==
  \A k \in Keys :
    LET Q == DupLog(k)
        T == TextLog(k)
    IN /\ \A i \in 1..Len(Q) :
            /\ RunLen(Q, i) < Q[i].rl => ~HasRepeat(Q[i])
            /\ RunLen(Q, i) = Q[i].rl => HasRepeat(Q[i])
       /\ \A i \in 1..Len(T) : ~T[i].dup => ~HasRepeat(T[i])
       /\ Q # <<>> => last_hash[k] = <<text_hash(Q[Len(Q)].tnorm), RunLen(Q, Len(Q))>>
       /\ Q = <<>> => last_hash[k][2] = 0

\* a run restarted by a differing message reached repeat_limit and fired
C2_Witness ==
  \E k \in Keys :
    LET Q == DupLog(k)
    IN \E i \in 2..Len(Q) :
         /\ RunLen(Q, i) = Q[i].rl
         /\ RunLen(Q, i) < i
         /\ HasRepeat(Q[i])
         /\ msgs[Q[i].m].pc = "done"

CallsOf(m, op) == {x \in calls : x.src = MsgSrc(m) /\ x.op = op}

Enforced(m) == msgs[m].acts > 0 \/ \E x \in calls : x.src = MsgSrc(m)

\* C3: a message whose sender was on the whitelist when it arrived, or whose
\* effective role was looked up as moderator or above, or whom the membership
\* lookup reported as administrator or owner, never enters the dispatcher and
\* causes no delete, log or restrict call.
C3_Exempt ==
  \A m \in 1..MaxMsgs :
    Enforced(m) =>
      /\ ~msgs[m].wl
      /\ ROLE_RANK(msgs[m].role) < ROLE_RANK("moderator")
      /\ msgs[m].reported \notin {"administrator", "creator"}

IsExemptSender(k) ==
  \/ k[2] \in whitelist[k[1]]
  \/ ROLE_RANK(roles[k]) >= ROLE_RANK("moderator")

\* three messages of an exempt sender were handled, nothing was enforced
C3_Witness ==
  \E k \in Keys :
    /\ IsExemptSender(k)
    /\ \A m \in 1..MaxMsgs : msgs[m].pc = "done" /\ msgs[m].uid = k[2] /\ msgs[m].acts = 0
    /\ calls = {}
    /\ log[k] = <<>>

\* C4: a message enters the action dispatcher at most once (one delete, one
\* audit entry, one restrict at most), and once it has been dispatched no
\* further check runs for it: its later steps change neither the rate
\* windows, the duplicate state, the album state nor the record of checks.
C4_Inv ==
  \A m \in 1..MaxMsgs :
    /\ msgs[m].acts <= 1
    /\ Len(msgs[m].pending) <= 1
    /\ \A op \in {"delete", "send", "restrict"} : Cardinality(CallsOf(m, op)) <= 1

C4_Step ==
  \A m \in 1..MaxMsgs :
    (msgs[m].acts >= 1 /\ msgs'[m] # msgs[m]) => UNCHANGED <<memVars, log>>

C4_OneDispatch == [](C4_Inv) /\ [][C4_Step]_vars

\* a message that violated both the flood and the link rule was dispatched
\* once, for flood
C4_Witness ==
  \E k \in Keys : \E i \in 1..Len(log[k]) :
    LET e == log[k][i]
    IN /\ e.cat = "message"
       /\ e.reasons = <<"flood">>
       /\ contains_link(e.tnorm)
       /\ msgs[e.m].pc = "done"
       /\ msgs[e.m].acts = 1
       /\ Cardinality(CallsOf(e.m, "delete")) = 1

AlbumFirsts(k, g) == SelectSeq(log[k], LAMBDA e : e.cat = "album" /\ e.gid = g)
AlbumRest(k, g) == SelectSeq(log[k], LAMBDA e : e.cat = "album_dup" /\ e.gid = g)

\* C5: of the items of one album of one (chat, user), at most one has its
\* caption checked for a link and at most one album_link action is
\* dispatched, and no step of an album item changes a rate window or the
\* duplicate state.
C5_Inv ==
  \A k \in Keys : \A g \in {1} :
    /\ Len(AlbumFirsts(k, g)) <= 1
    /\ \A i \in 1..Len(AlbumFirsts(k, g)) : msgs[AlbumFirsts(k, g)[i].m].acts <= 1
    /\ \A i \in 1..Len(AlbumRest(k, g)) : ~Enforced(AlbumRest(k, g)[i].m)

C5_Step ==
  \A m \in 1..MaxMsgs :
    (msgs[m].mgid # 0 /\ msgs'[m] # msgs[m]) =>
      UNCHANGED <<msg_times, sticker_times, gif_times, last_hash>>

C5_Album == [](C5_Inv) /\ [][C5_Step]_vars

\* an album of three items: one link check, one album_link, windows untouched
C5_Witness ==
  \E k \in Keys :
    /\ Len(AlbumFirsts(k, 1)) = 1
    /\ AlbumFirsts(k, 1)[1].reasons = <<"album_link">>
    /\ Len(AlbumRest(k, 1)) = 2
    /\ \A m \in 1..MaxMsgs : msgs[m].pc = "done"
    /\ msg_times[k] = <<>> /\ sticker_times[k] = <<>> /\ gif_times[k] = <<>>
    /\ last_hash[k][2] = 0

WindowOf(k, cat) ==
  IF cat = "message" THEN msg_times[k]
  ELSE IF cat = "sticker" THEN sticker_times[k] ELSE gif_times[k]

\* C10: the record step is atomic per key.  Of two record steps of one
\* (chat, user, category) that follow each other, the second finds the
\* timestamp the first appended (unless it is older than the window), it
\* counts one more than the first when nothing is trimmed, and the window in
\* memory is the one the last step left.
C10_AtomicRecord ==
  \A k \in Keys : \A cat \in RateCats :
    LET Q == LogOf(k, cat)
    IN /\ \A i \in 2..Len(Q) :
            LET a == Q[i - 1]
                b == Q[i]
            IN /\ (b.ts - a.ts <= b.W) =>
                    /\ Len(b.seen) >= 2
                    /\ b.seen[Len(b.seen) - 1] = a.ts
               /\ (b.ts - Head(a.seen) <= b.W) => Len(b.seen) = Len(a.seen) + 1
       /\ Q # <<>> => WindowOf(k, cat) = Q[Len(Q)].seen
       /\ Q = <<>> => WindowOf(k, cat) = <<>>

\* two messages of one user were in flight together: the one that arrived
\* later made its record step first, and the other one counted it
C10_Witness ==
  \E k \in Keys : \E cat \in RateCats :
    LET Q == LogOf(k, cat)
    IN \E i \in 2..Len(Q) :
         /\ Q[i - 1].m > Q[i].m
         /\ Len(Q[i].seen) = Len(Q[i - 1].seen) + 1

\* =====================================================================
\* Properties of the privileged commands (SpecCmd, SpecWarn)
\* =====================================================================
CmdCalls(t) == {x \in calls : x.src = CmdSrc(t)}

\* C6: ensure_can_moderate_target returns false whenever the target's
\* effective rank is greater than or equal to the actor's effective rank
\* (an actor or a target without a role included), and whenever the platform
\* reports the target as owner or administrator.  Stated on the step that
\* returns the verdict, for verdicts whose two role lookups returned the
\* roles in force at that moment.
C6_Step ==
  \A t \in 1..MaxCmds :
    (cmds[t].pc = "ecm3" /\ cmds'[t].ecm = "allowed"
      /\ cmds[t].arole = EffectiveNow(cmds[t].cid, cmds[t].actor)
      /\ cmds'[t].trole = EffectiveNow(cmds[t].cid, cmds[t].target))
    => /\ ROLE_RANK(cmds'[t].trole) < ROLE_RANK(cmds[t].arole)
       /\ cmds'[t].tstat \notin {"creator", "administrator"}

C6_Original == [][C6_Step]_vars

\* the minimum role of each privileged command (section 4.3 of the
\* specification)
MinRole(cmd) ==
  IF cmd = "invite" THEN "seeker"
  ELSE IF cmd \in {"warn", "mute", "unmute", "to_main"} THEN "moderator"
  ELSE IF cmd \in {"ban", "unban"} THEN "admin"
  ELSE "head_admin"

MeetsMinRole(role, cmd) == role # None /\ ROLE_RANK(role) >= ROLE_RANK(MinRole(cmd))

\* C7: a privileged command whose actor's effective role does not satisfy
\* the command's minimum rank is rejected before any side effect: the step
\* that evaluates the gate ends the handler with an answer and nothing else,
\* the stored data and the persisted snapshot are unchanged by it, and the
\* handler never makes a restrict, ban, unban, delete, copy or invite call.
C7_Inv ==
  \A t \in 1..MaxCmds :
    (cmds[t].gate # None /\ ~MeetsMinRole(cmds[t].eff, cmds[t].cmd))
    => /\ cmds[t].gate = "rejected"
       /\ cmds[t].pc = "done"
       /\ \A x \in CmdCalls(t) : x.op = "answer"

C7_Step ==
  \A t \in 1..MaxCmds :
    (cmds[t].pc = "auth" /\ cmds'[t] # cmds[t]
      /\ ~MeetsMinRole(EffectiveNow(cmds[t].cid, cmds[t].actor), cmds[t].cmd))
    => /\ cmds'[t].gate = "rejected"
       /\ UNCHANGED <<dataVars, disk>>
       /\ \A x \in calls' \ calls : x.src = CmdSrc(t) /\ x.op = "answer"

C8_Original ==
  \A t \in 1..MaxCmds :
    (cmds[t].cmd = "warn" /\ cmds[t].pc = "done" /\ cmds[t].cnt > 0)
    => Cardinality({x \in CmdCalls(t) : x.op = "restrict"})
         = (IF cmds[t].cnt % 3 = 0 THEN 1 ELSE 0)

\* the warn handlers that have added their warning to k
Warned(k) ==
  {t \in 1..MaxCmds : cmds[t].cnt > 0 /\ <<cmds[t].cid, cmds[t].target>> = k}

\* C9: add_warn_local increments the count of (chat, user) by exactly one,
\* persists it and returns the total its own increment produced; warns that
\* overlap in time return distinct consecutive totals.
C9_Inv ==
  \A k \in Keys :
    /\ \A t1, t2 \in Warned(k) : cmds[t1].cnt = cmds[t2].cnt => t1 = t2
    /\ {cmds[t].cnt : t \in Warned(k)}
         = (warns[k] - Cardinality(Warned(k)) + 1)..warns[k]

C9_Step ==
  \A t \in 1..MaxCmds :
    (cmds[t].cnt = 0 /\ cmds'[t].cnt # 0)
    => LET k == <<cmds[t].cid, cmds[t].target>>
       IN /\ cmds'[t].cnt = warns[k] + 1
          /\ warns' = [warns EXCEPT ![k] = warns[k] + 1]
          /\ disk'.warns = warns'

C9_WarnTotal == []C9_Inv /\ [][C9_Step]_vars

\* two /warn handlers against one user are in flight past their
\* add_warn_local, each holding its own total
C9_Witness ==
  \E t1, t2 \in 1..MaxCmds :
    /\ t1 # t2
    /\ cmds[t1].pc = "warn_reply" /\ cmds[t2].pc = "warn_reply"
    /\ cmds[t1].target = cmds[t2].target
    /\ cmds[t2].cnt = cmds[t1].cnt + 1

\* ------------------------------------------------------------ the store
\* a task inside a mutation or a flush
Active(x) == PcOf(x) \in {"set", "save", "open", "dump", "replace", "release"}

ActiveTasks == {x \in TaskIds : Active(x)}

\* C11 as stated: every mutation of the shared snapshot is performed while
\* the store's lock is held.
C11_Original == [][dataVars' # dataVars => lock # Free]_vars

C11_Inv ==
  /\ lock # Free => lock = running /\ Active(lock)
  /\ Cardinality(ActiveTasks) <= 1
  /\ \A x \in ActiveTasks : running = x

\* a flush: the whole snapshot is written to a file
Flushes == tmp' # tmp /\ IsSnapshot(tmp')

C11_Step == Flushes => \A w \in 1..MaxWriters : MidUpdate(w) => running = w

\* C11: the lock is only ever held by the task that is running, at any time
\* at most one task is mutating or flushing the snapshot, and a flush never
\* writes a snapshot in which another task's update is half-applied.
C11_SingleWriter == []C11_Inv /\ [][C11_Step]_vars

\* a task flushes between the two writes of its update while another task
\* waits for its role lookup
C11_Witness ==
  \E w1, w2 \in 1..MaxWriters :
    /\ MidUpdate(w1) /\ writers[w1].pc = "replace" /\ IsSnapshot(tmp)
    /\ writers[w2].pc = "lookup"


PlanFields(plan) == {plan[i][1] : i \in 1..Len(plan)}

Applied(w) ==
  \A i \in 1..Len(writers[w].plan) :
    settings[StoreChat][writers[w].plan[i][1]] = writers[w].plan[i][2]

Wrote(w) == writers[w].pc = "done" /\ Len(writers[w].plan) > 0

\* C12: when two settings mutations of one chat that write different fields
\* have both completed, the stored record holds the values both of them
\* wrote, whatever the order in which their handlers were started, resumed
\* and finished.
C12_BothTakeEffect ==
  \A w1, w2 \in 1..MaxWriters :
    /\ w1 # w2
    /\ Wrote(w1) /\ Wrote(w2)
    /\ PlanFields(writers[w1].plan) \cap PlanFields(writers[w2].plan) = {}
    => Applied(w1) /\ Applied(w2)

\* two keyboard presses on different fields, both in flight when the first
\* of them read the settings, have both completed; the one started later
\* wrote first
C12_Witness ==
  /\ Wrote(1) /\ Wrote(2)
  /\ writers[1].kind = "button" /\ writers[2].kind = "button"
  /\ writers[2].conc /\ ~writers[1].conc
  /\ PlanFields(writers[1].plan) \cap PlanFields(writers[2].plan) = {}
  /\ settings[StoreChat].flood_limit # DEFAULT.flood_limit
  /\ settings[StoreChat].repeat_limit # DEFAULT.repeat_limit

\* C13: the live snapshot file always holds a complete snapshot, at a crash
\* in the middle of save_data too, and whenever the live file changes it
\* becomes the complete snapshot of the data being saved.
C13_Inv == IsSnapshot(disk)

C13_Step ==
  disk' # disk =>
    disk' = Snapshot(settings, whitelist, roles, warns, activity, meta)

C13_LiveFileWhole == []C13_Inv /\ [][C13_Step]_vars

\* the process crashed inside save_data after the temporary file was
\* opened for writing: the live file still holds the snapshot saved before
C13_Witness ==
  /\ proc = "crashed"
  /\ lock # Free
  /\ tmp = Torn
  /\ IsSnapshot(disk)
  /\ disk # Snapshot(settings, whitelist, roles, warns, activity, meta)

\* C14 as stated: when the process has stopped while a debounced save was
\* pending, every activity update that was accepted in memory is in the
\* live snapshot file.
C14_Original ==
  proc = "stopped" /\ (\E i \in 1..Len(save_task) : save_task[i] = "cancelled")
  => IsSnapshot(disk) /\ disk.activity = activity

\* the _delayed tasks that exist: created and not finished
LiveDelayed == {i \in 1..Len(save_task) : save_task[i] \notin {"done", "cancelled"}}

\* the activity updates made while no debounced save was pending
Unpended ==
  {w \in 1..MaxWriters :
     writers[w].kind = "activity" /\ writers[w].pc = "done" /\ ~writers[w].pend}

C15_Inv ==
  /\ Cardinality(LiveDelayed) <= 1
  /\ Len(save_task) = Cardinality(Unpended)

C15_Step ==
  activity' # activity /\ LiveDelayed # {} => save_task' = save_task

\* C15: at any time at most one debounced save task exists, an activity
\* update made while one is pending schedules nothing, and the number of
\* debounced flushes ever scheduled is the number of updates that arrived
\* with none pending: a burst of updates within the delay gets one flush.
C15_Coalesced == []C15_Inv /\ [][C15_Step]_vars

\* two activity updates, the second while the save of the first was
\* pending; the one debounced task has flushed both
C15_Witness ==
  /\ writers[1].kind = "activity" /\ writers[2].kind = "activity"
  /\ writers[1].arg[1] = 1 /\ writers[2].arg[1] = 2
  /\ writers[2].pend
  /\ save_task = <<"done">>
  /\ IsSnapshot(disk) /\ disk.activity[StoreChat][1] = 2

\* a task whose request is a configuration error: an unknown field, an
\* invalid role name, a malformed or out-of-range duration
BadRequest(w) ==
  \/ writers[w].kind = "set_setting" /\ writers[w].arg[1] \notin DOMAIN DEFAULT
  \/ writers[w].kind = "set_role" /\ writers[w].arg[1] \notin RoleNames
  \/ /\ writers[w].kind = "automute"
     /\ Len(writers[w].arg) > 0
     /\ LET sec == parse_duration_to_seconds(writers[w].arg)
        IN sec = NoInt \/ sec < 30 \/ sec > 86400

\* the step is taken by task w
StepOf(w) == writers'[w] # writers[w]

\* C18: a step of a task whose request is a configuration error changes
\* neither the snapshot in memory nor the live snapshot file, and such a
\* task ends without a settings write: set_setting_local with an unknown
\* field and set_role_local with an invalid role raise, /automute with a bad
\* duration answers and returns.
C18_Step ==
  \A w \in 1..MaxWriters :
    BadRequest(w) /\ StepOf(w) =>
      /\ dataVars' = dataVars
      /\ disk' = disk
      /\ writers'[w].pc \in {"done", "raised", "set"}

C18_Inv ==
  \A w \in 1..MaxWriters :
    BadRequest(w) => writers[w].pc \notin {"save", "open", "dump", "replace", "release"}

C18_NoChange == []C18_Inv /\ [][C18_Step]_vars

\* the three configuration errors have been made and refused: an unknown
\* field raised, and an out-of-range duration was answered
C18_Witness ==
  /\ writers[1].kind = "set_setting" /\ writers[1].pc = "raised"
  /\ writers[2].kind = "automute" /\ writers[2].pc = "done"
  /\ BadRequest(1) /\ BadRequest(2)
  /\ parse_duration_to_seconds(writers[2].arg) = 2 * 86400

InBounds(s) ==
  /\ s.mute_seconds \in 30..86400
  /\ s.flood_limit \in 2..50
  /\ s.flood_window_sec \in 3..120
  /\ s.repeat_limit \in 2..10
  /\ s.sticker_limit \in 1..30
  /\ s.gif_limit \in 1..30
  /\ s.media_window_sec \in 3..120
  /\ s.cleanup_days \in {7, 14, 30, 60, 90}

\* C19: after any sequence of keyboard presses and /automute commands every
\* numeric field of every chat's settings is within its bounds.
C19_InBounds == \A c \in Chats : InBounds(settings[c])

\* at the upper bounds a press of "flood +" was clamped to 50, and
\* /automute 1d stored the largest duration allowed
C19_Witness ==
  /\ writers[1].kind = "button" /\ writers[1].arg = <<"flood_inc">>
  /\ writers[1].pc = "done" /\ writers[1].plan = << <<"flood_limit", 50>> >>
  /\ writers[2].kind = "automute" /\ writers[2].pc = "done"
  /\ settings[StoreChat].flood_limit = 50
  /\ settings[StoreChat].mute_seconds = 86400
  /\ settings[StoreChat].action = "mute"

\* the step completes a /setrole or /delrole of task t
RoleCmdStep(t) ==
  /\ cmds[t].pc = "auth"
  /\ cmds[t].cmd \in {"setrole", "delrole"}
  /\ cmds'[t].pc = "done"

\* C20: a stored role changes only in a step that completes a /setrole or
\* /delrole whose issuer's effective role at that moment is head_admin or
\* creator, and a stored role becomes creator only when the issuer's
\* effective role is creator.
C20_Step ==
  roles' # roles =>
    \E t \in 1..MaxCmds :
      /\ RoleCmdStep(t)
      /\ EffectiveNow(cmds[t].cid, cmds[t].actor) \in {"head_admin", "creator"}
      /\ \A k \in Keys :
           roles'[k] = "creator" /\ roles[k] # "creator"
           => EffectiveNow(cmds[t].cid, cmds[t].actor) = "creator"

C20_RoleChanges == [][C20_Step]_vars

\* the owner has assigned the stored role creator, and a /setrole by a
\* head_admin has passed the gate without making its target creator
C20_Witness ==
  \E t1, t2 \in 1..MaxCmds :
    /\ cmds[t1].pc = "done" /\ cmds[t1].cmd = "setrole" /\ cmds[t1].eff = "creator"
    /\ roles[<<cmds[t1].cid, cmds[t1].target>>] = "creator"
    /\ cmds[t2].pc = "done" /\ cmds[t2].cmd = "setrole" /\ cmds[t2].gate = "passed"
    /\ cmds[t2].eff = "head_admin"
    /\ roles[<<cmds[t2].cid, cmds[t2].target>>] # "creator"

\* C16: the live file after the second save(load()), and after every later
\* one, is identical to the live file after the first.
C16_Idempotent == \A i \in 2..Len(hist) : hist[i] = hist[1]

\* save(load()) has been applied twice to a file in another layout whose
\* settings repeat a key with two spellings of one number and which carries
\* a key that is not a namespace: the saved text is the normal form
C16_Witness ==
  /\ Len(hist) = 2
  /\ proc = "up"
  /\ disk = DataText(DataNow)
  /\ settings = V("dict", "", << <<"a", Leaf("float", "100.0")>>,
                                 <<"b", Leaf("none", "")>> >>)
  /\ roles = EmptyDict

\* the file cannot be used: missing, unreadable, not JSON, not an object
BadFile(file) == file.state # "json" \/ file.doc.t # "obj"

\* C17: load_data never lets an exception escape, and after the load of a
\* file that is missing, unreadable, not JSON or not a JSON object every
\* namespace of DATA is its empty default.
C17_FailsSoft ==
  /\ proc # "dead"
  /\ proc = "loaded" /\ BadFile(disk) => DataNow = EmptyData

\* the load of a file that is not valid JSON has returned
C17_Witness ==
  /\ proc = "loaded"
  /\ disk.state = "garbage"
  /\ DataNow = EmptyData

\* ---------------------------------------------------------------- roles
\* C21: get_effective_role returns creator whenever the platform reports the
\* user as chat owner, whatever role is stored; otherwise it returns exactly
\* the stored role, or none when nothing is stored.
C21_Effective ==
  \A t \in 1..MaxCmds :
    cmds[t].pc = "done" =>
      IF cmds[t].tstat = "creator" THEN cmds[t].arole = "creator"
      ELSE cmds[t].arole = roles[<<cmds[t].cid, cmds[t].actor>>]

\* the owner of the chat, with the stored role moderator, was looked up and
\* is creator; a user the platform reports as administrator with no stored
\* role was looked up and has none
C21_Witness ==
  /\ cmds[1].pc = "done" /\ cmds[1].tstat = "creator" /\ cmds[1].arole = "creator"
  /\ roles[<<cmds[1].cid, cmds[1].actor>>] = "moderator"
  /\ cmds[2].pc = "done" /\ cmds[2].actor = 2 /\ cmds[2].tstat = "member"
  /\ cmds[2].arole = None

NoLink(e) == ~contains_link(e.tnorm)

\* T[1..i] are texts without a link, recorded within five seconds
PlainBurst(T, i) ==
  /\ \A x \in 1..i : NoLink(T[x])
  /\ \A x, y \in 1..i : T[x].ts - T[y].ts <= 5

\* what the dispatcher did for message m
Deleted(m) == Cardinality(CallsOf(m, "delete")) = 1
Restricted(m) == Cardinality(CallsOf(m, "restrict")) = 1
Untouched23(m) == msgs[m].acts = 0 /\ ~Enforced(m)

C23_Inv ==
  \A k \in Keys :
    LET T == TextLog(k)
        s == settings[k[1]]
    IN \A i \in 1..Len(T) :
         LET m == T[i].m
         IN /\ PlainBurst(T, i) =>
                 /\ (i <= 3 /\ RunLen(T, i) < s.repeat_limit) => T[i].reasons = <<>>
                 /\ (i <= 3 /\ RunLen(T, i) >= s.repeat_limit) => T[i].reasons = <<"repeat">>
                 /\ i > 3 => T[i].reasons = <<"flood">>
            /\ (T[i].reasons = <<>> /\ msgs[m].pc = "done") => Untouched23(m)
            /\ (T[i].reasons # <<>> /\ msgs[m].pc = "done") =>
                 /\ msgs[m].acts = 1
                 /\ Deleted(m)
                 /\ s.action # "mute" => CallsOf(m, "restrict") = {}
                 /\ (s.action = "mute" /\ msgs[m].exc = None) => Restricted(m)

C23_Step ==
  \A m \in DOMAIN msgs :
    (msgs[m].pc = "mute" /\ msgs'[m].pc = "done" /\ msgs'[m].exc = None) =>
      msgs'[m].until = clock + settings[msgs[m].cid].mute_seconds

C24_Original ==
  \A m \in DOMAIN msgs :
    /\ msgs[m].exc = None
    /\ (msgs[m].pc = "done" /\ msgs[m].acts > 0 /\ settings[msgs[m].cid].action = "mute")
         => Restricted(m)

\* the entry a text step of message m appends to the record of checks
TextEntry(m) ==
  LET k == <<msgs[m].cid, msgs[m].uid>>
  IN log'[k][Len(log'[k])]

IsTextStep(m) ==
  /\ msgs[m].pc = "member" /\ msgs'[m].pc # "member"
  /\ msgs[m].mgid = 0 /\ ~msgs[m].sticker /\ ~msgs[m].animation
  /\ log' # log

\* C29: for a message that is no album item, sticker or animation the checks
\* run in the order flood, link, duplicate; the message is dispatched with the
\* first reason that is violated and with no other, and a check after the
\* violated one is skipped: a flood or link violation leaves the duplicate
\* fingerprint and run count as they were.
C29_Step ==
  \A m \in DOMAIN msgs :
    IsTextStep(m) =>
      LET e == TextEntry(m)
          k == <<msgs[m].cid, msgs[m].uid>>
          s == msgs[m].s
          flood == Len(e.seen) > s.flood_limit
          link == s.block_links /\ contains_link(e.tnorm)
      IN /\ Len(e.reasons) <= 1
         /\ flood => e.reasons = <<"flood">>
         /\ (~flood /\ link) => e.reasons = <<"link">>
         /\ (~flood /\ ~link) => e.reasons \in {<<>>, <<"repeat">>}
         /\ (flood \/ link) => last_hash'[k] = last_hash[k]
         /\ (~flood /\ ~link /\ e.tnorm # <<>>) =>
              /\ last_hash'[k][1] = text_hash(e.tnorm)
              /\ e.reasons = <<"repeat">> <=> last_hash'[k][2] >= s.repeat_limit
         /\ msgs'[m].pending = e.reasons

C29_Order == [][C29_Step]_vars

\* the same link was sent three times and a fourth time over the flood
\* limit: three link violations, then a flood violation, and the duplicate
\* state was never touched
C29_Witness ==
  \E k \in Keys :
    LET T == TextLog(k)
    IN /\ Len(T) = 4
       /\ \A i \in 1..4 : T[i].tnorm = T[1].tnorm /\ contains_link(T[i].tnorm)
       /\ \A i \in 1..3 : T[i].reasons = <<"link">>
       /\ T[4].reasons = <<"flood">>
       /\ last_hash[k] = <<"", 0>>
       /\ msgs[T[4].m].pc = "done"

\* --------------------------------------------- stickers and animations
IsMediaStep(m) ==
  /\ msgs[m].pc = "member" /\ msgs'[m].pc # "member"
  /\ msgs[m].mgid = 0
  /\ msgs[m].sticker \/ msgs[m].animation

\* mode, limit, window and violation names of the branch message m takes
MediaOf(m) ==
  IF msgs[m].sticker
  THEN [mode |-> msgs[m].s.sticker_mode, L |-> msgs[m].s.sticker_limit,
        old |-> sticker_times, new |-> sticker_times',
        ban |-> "sticker_ban", lim |-> "sticker_limit"]
  ELSE [mode |-> msgs[m].s.gif_mode, L |-> msgs[m].s.gif_limit,
        old |-> gif_times, new |-> gif_times',
        ban |-> "gif_ban", lim |-> "gif_limit"]

C30_Step ==
  \A m \in DOMAIN msgs :
    IsMediaStep(m) =>
      LET b == MediaOf(m)
          k == <<msgs[m].cid, msgs[m].uid>>
      IN /\ msg_times' = msg_times /\ last_hash' = last_hash
         /\ b.mode = "ban" => msgs'[m].pending = <<b.ban>> /\ msgs'[m].acts = 1
         /\ b.mode = "allow" =>
              /\ msgs'[m].pc = "done" /\ msgs'[m].acts = 0
              /\ b.new = b.old
         /\ b.mode = "limit" =>
              /\ b.new[k] # <<>> /\ b.new[k][Len(b.new[k])] = msgs[m].now
              /\ msgs'[m].pending =
                   IF Len(b.new[k]) > b.L THEN <<b.lim>> ELSE <<>>

C30_Inv ==
  \A k \in Keys : \A cat \in {"sticker", "animation"} :
    LET Q == LogOf(k, cat)
    IN \A i \in 1..Len(Q) : \A j \in 1..i :
         OneWindowRun(Q, j, i) =>
           /\ (i - j + 1) <= Q[i].L => (Q[i].reasons = <<>> /\ ~Enforced(Q[i].m))
           /\ (i - j + 1) > Q[i].L => (Q[i].reasons # <<>> /\ msgs[Q[i].m].acts = 1)

C28_Step ==
  \A m \in DOMAIN msgs :
    IsTextStep(m) =>
      LET e == TextEntry(m)
          s == settings[msgs[m].cid]
          k == <<msgs[m].cid, msgs[m].uid>>
          fresh == Record(msg_times[k], msgs[m].now, s.flood_window_sec)
      IN /\ msg_times'[k] = fresh
         /\ e.reasons = <<"flood">> <=> Len(fresh) > s.flood_limit

C28_Original == [][C28_Step]_vars

\* ------------------------------------------------ the inactivity sweep
SweepJobs == {"cleanup_loop", "run_now"}

\* the user the sweep of job j is working on
Cur(j) == <<jobs[j].cid, jobs[j].rows[1]>>

StaleNow(k) ==
  /\ activity[k[1]][k[2]] # -1
  /\ activity[k[1]][k[2]] < clock - settings[k[1]].cleanup_days * SweepDay

\* C25 as stated: the sweep removes only tracked users of a cleanup-enabled
\* chat whose last-seen timestamp is before now minus cleanup_days; it never
\* issues a ban for a user the platform reports as owner, administrator, left
\* or kicked; in ban mode it issues a ban only, in kick mode a ban
\* immediately followed by an unban.
C25_BanStep ==
  \A j \in SweepJobs :
    (jobs[j].pc = "ban" /\ jobs'[j] # jobs[j]) =>
      /\ settings[jobs[j].cid].cleanup_enabled
      /\ StaleNow(Cur(j))
      /\ status[Cur(j)] \notin SkipStatuses
      /\ jobs'[j].trace[Len(jobs'[j].trace)].out = "ok" =>
           (jobs'[j].pc = "unban" <=> settings[jobs[j].cid].cleanup_mode = "kick")

Added(j) ==
  IF jobs'[j] = jobs[j] THEN <<>>
  ELSE IF jobs[j].pc \in {"start", "sleep"} THEN jobs'[j].trace
  ELSE SubSeq(jobs'[j].trace, Len(jobs[j].trace) + 1, Len(jobs'[j].trace))

\* C25 amended: every user a sweep enumerates is tracked and was last seen
\* before the time the sweep of the chat began minus cleanup_days, and the
\* sweep bans no other user (a user who becomes active after the enumeration
\* is still removed); the periodic loop sweeps only the chats that had
\* cleanup enabled when its iteration began, while the sweep started from the
\* settings keyboard runs whether or not cleanup is enabled; a ban is issued
\* only right after a membership lookup of that user that returned a status
\* other than owner, administrator, left or kicked; in ban mode no unban is
\* ever issued, in kick mode an unban is issued right after every ban that
\* succeeded and only then.
C25_Step ==
  \A j \in SweepJobs :
    \A i \in 1..Len(Added(j)) :
      LET e == Added(j)[i]
      IN /\ e.op = "row" => StaleNow(<<e.cid, e.uid>>)
         /\ (e.op = "run" /\ j = "cleanup_loop") => settings[e.cid].cleanup_enabled

C25_Inv ==
  \A j \in SweepJobs :
    LET T == jobs[j].trace
    IN \A i \in 1..Len(T) :
         /\ T[i].op = "ban" =>
              /\ i > 1 /\ T[i - 1] = Step("lookup", T[i].cid, T[i].uid, "ok")
              /\ status[<<T[i].cid, T[i].uid>>] \notin SkipStatuses
              /\ \E r \in 1..i : T[r] = Step("row", T[i].cid, T[i].uid, None)
              /\ (T[i].out = "ok" /\ settings[T[i].cid].cleanup_mode = "kick") =>
                   IF i = Len(T) THEN jobs[j].pc = "unban" /\ Cur(j) = <<T[i].cid, T[i].uid>>
                   ELSE T[i + 1].op = "unban" /\ T[i + 1].uid = T[i].uid
         /\ T[i].op = "unban" =>
              /\ settings[T[i].cid].cleanup_mode = "kick"
              /\ i > 1 /\ T[i - 1] = Step("ban", T[i].cid, T[i].uid, "ok")

Finished(j) == jobs[j].pc \in {"sleep", "done"}

\* C26 as stated: a transport failure while the sweep processes one user does
\* not abort the batch: every other stale user enumerated for the chat is
\* still processed, and every other cleanup-enabled chat is still swept.
C26_Original ==
  \A j \in SweepJobs :
    Finished(j) =>
      LET T == jobs[j].trace
      IN /\ \A i \in 1..Len(T) :
              T[i].op = "row" =>
                \E l \in 1..Len(T) : T[l].op = "lookup" /\ T[l].cid = T[i].cid
                                     /\ T[l].uid = T[i].uid
         /\ (j = "cleanup_loop" /\ jobs[j].pc = "sleep") =>
              \A c \in DOMAIN settings :
                settings[c].cleanup_enabled =>
                  \E l \in 1..Len(T) : T[l] = Step("run", c, 0, None)

\* ------------------------------------------------ the background loops
LoopAlive(j) == jobs[j].pc # "dead"

\* the loop of job j begins iterations again and again
RunsForever(j) == []<>(jobs[j].iter = 0) /\ []<>(jobs[j].iter = 1)

\* an iteration in which an exception was caught is followed by the next one
Recovers(j) ==
  \A b \in {0, 1} :
    (jobs[j].failed /\ jobs[j].iter = b)
      ~> (jobs[j].iter = 1 - b /\ jobs[j].last = "failed")

\* C27: neither background loop (the inactivity sweep, the activity
\* pruning) ends because of a failure inside an iteration: after an
\* iteration that fails the loop sleeps and runs its next iteration, so each
\* loop runs infinitely often while the process is alive.
C27_Loops ==
  /\ [](LoopAlive("cleanup_loop") /\ LoopAlive("prune_loop"))
  /\ RunsForever("cleanup_loop") /\ RunsForever("prune_loop")
  /\ Recovers("cleanup_loop") /\ Recovers("prune_loop")

\* both loops are in an iteration that follows a failed one: the sweep of a
\* chat raised in the one, the pruning in the other
C27_Witness ==
  /\ jobs["cleanup_loop"].last = "failed" /\ Sweeping("cleanup_loop")
  /\ jobs["prune_loop"].last = "failed" /\ jobs["prune_loop"].pc = "sleep"

\* ------------------------------------------------- warnings over time
\* the handlers whose add_warn_local for k ran in this step
Warning(k) ==
  {t \in 1..MaxCmds : /\ cmds[t].cnt = 0 /\ cmds'[t].cnt # 0
                      /\ <<cmds[t].cid, cmds[t].target>> = k}

\* C31: the warning count of every (chat, user) never decreases, it grows by
\* exactly one with every warn and not otherwise, and a warning record that
\* exists (a count above zero) is never deleted.
C31_Step ==
  \A k \in Keys :
    /\ warns'[k] >= warns[k]
    /\ warns'[k] = warns[k] + Cardinality(Warning(k))
    /\ warns[k] > 0 => warns'[k] > 0
    /\ disk.warns[k] > 0 => disk'.warns[k] >= disk.warns[k]

C31_Monotone == [][C31_Step]_vars

\* a user who had warnings has been warned twice more, by two handlers that
\* are both over
C31_Witness ==
  \E k \in Keys :
    /\ Cardinality(Warned(k)) = 2
    /\ \A t \in Warned(k) : cmds[t].pc = "done"
    /\ warns[k] >= 3

\* --------------------------------------------------- the album table
Entries(q) == {q[i] : i \in 1..Len(q)}

\* the album element whose handler this step ran to the album branch
AlbumArrivals ==
  {m \in DOMAIN msgs : /\ InFlight(msgs[m]) /\ msgs'[m] # msgs[m]
                       /\ msgs[m].mgid # 0}

\* C32: after every album observation at most 300 groups are tracked per
\* (chat, user); an observation of a group seen before changes nothing, a
\* new group is entered with the timestamp of its message, and when that
\* makes the table exceed 300 the 100 entries with the oldest timestamps
\* are evicted, the others staying in their order.
C32_Step ==
  \A k \in Keys :
    album_seen'[k] # album_seen[k] =>
      \E m \in AlbumArrivals :
        LET old == album_seen[k]
            new == album_seen'[k]
            ins == Append(old, <<msgs[m].mgid, msgs[m].now>>)
            Stays(x) == x \in Entries(new)
        IN /\ k = <<msgs[m].cid, msgs[m].uid>>
           /\ ~AlbumHas(old, msgs[m].mgid)
           /\ IF Len(ins) <= AlbumCap THEN new = ins
              ELSE /\ Len(new) = Len(ins) - AlbumEvict
                   /\ new = SelectSeq(ins, Stays)
                   /\ \A x \in Entries(ins) \ Entries(new) :
                        \A y \in Entries(new) : x[2] <= y[2]

C32_Inv == \A k \in Keys : Len(album_seen[k]) <= AlbumCap

C32_Capped == []C32_Inv /\ [][C32_Step]_vars

\* the table held 300 groups, the newest of them entered first; a new album
\* made it 301 and the 100 oldest, entered last, were evicted
C32_Witness ==
  LET q == album_seen[<<1, 1>>]
  IN /\ Len(q) = AlbumCap + 1 - AlbumEvict
     /\ q[1] = <<1, AlbumCap>>
     /\ q[Len(q)][1] > AlbumCap

\* ------------------------------------------------ activity pruning
\* the records of a chat that were seen at or after the record of u was
\* (items is the list of the last_ts of the chat)
AsRecent(items, u) == {x \in 1..Len(items) : x # u /\ items[x] >= items[u]}

Tracked(items) == {x \in 1..Len(items) : items[x] # -1}

\* one iteration of the prune loop, chat by chat: a record is left alone or
\* removed; one that is removed is older than the cutoff and at least
\* ACTIVITY_MAX_PER_CHAT other records of its chat are as recent, so that a
\* record satisfying either retention rule is kept; the cap is never
\* undercut; and the file is rewritten, with the pruned data, only when a
\* record was removed
C33_Step ==
  jobs'["prune_loop"] # jobs["prune_loop"] =>
    /\ \A c \in DOMAIN activity :
         \A was \in {Items(c)}, is \in {SubSeq(activity'[c], 1, Len(activity'[c]))} :
           /\ Len(is) = Len(was)
           /\ \A u \in 1..Len(was) :
                is[u] # was[u] =>
                  /\ is[u] = -1
                  /\ was[u] < clock - ACTIVITY_KEEP_DAYS * SweepDay
                  /\ Cardinality(AsRecent(was, u)) >= ACTIVITY_MAX_PER_CHAT
           /\ \/ Cardinality(Tracked(is)) = Cardinality(Tracked(was))
              \/ Cardinality(Tracked(is)) >= ACTIVITY_MAX_PER_CHAT
    /\ disk' # disk =>
         /\ activity' # activity
         /\ disk' = Snapshot(settings, whitelist, roles, warns, activity', meta)

\* C33: activity pruning removes a record only if its last-seen timestamp
\* is older than the 180-day cutoff and it is not among the 20000 most
\* recently seen records of its chat; every record that satisfies either
\* retention rule is kept, and the snapshot is saved only when at least
\* one record was removed.
C33_Pruning == [][C33_Step]_vars

\* a chat with one record more than the cap, where the two oldest records
\* were both older than the cutoff: the prune removed the older one, kept
\* the other, which the cap retains, and saved
C33_Witness ==
  /\ jobs["prune_loop"].pc = "sleep"
  /\ Len(activity[1]) = ACTIVITY_MAX_PER_CHAT + 1
  /\ activity[1][1] = -1
  /\ activity[1][2] = Old2
  /\ disk.activity = activity

\* ------------------------------------------------ failed saves
\* where the task x is after the step
PcAfter(x) == IF x <= MaxWriters THEN writers'[x].pc ELSE save_task'[x - MaxWriters]

InSave == {"open", "dump", "replace"}

\* the save_data of task x ends in this step, with the file replaced or
\* with an error swallowed
SaveEnds(x) == x \in TaskIds /\ PcOf(x) \in InSave /\ PcAfter(x) = "release"

SaveWrites(x) == SaveEnds(x) /\ PcOf(x) = "replace" /\ tmp' = NoFile

SaveRaises(x) == SaveEnds(x) /\ ~SaveWrites(x)

\* a failed save changes neither DATA nor the file; a task that is past
\* its save_data goes on to its next mutation or ends, and does not save
\* again; a save that succeeds writes all that DATA holds
C34_Step ==
  \A x \in TaskIds :
    /\ SaveRaises(x) => dataVars' = dataVars /\ disk' = disk
    /\ PcOf(x) = "release" => PcAfter(x) \in {"release", "set", "done"}
    /\ SaveWrites(x) =>
         /\ dataVars' = dataVars
         /\ disk' = Snapshot(settings, whitelist, roles, warns, activity, meta)

\* C34: a failed save does not lose the mutation and does not halt
\* processing: after a save_data that fails, DATA still holds the mutation,
\* no immediate retry happens, and the next mutation's successful save
\* writes a snapshot containing both the earlier and the new mutation.
C34_RetriedLater == [][C34_Step]_vars

\* the save of set_role_local(2, "admin") failed; the save of the
\* set_setting_local that came next succeeded, and the file holds both
C34_Witness ==
  /\ writers[1].kind = "set_role" /\ writers[1].pc = "done" /\ writers[1].unsaved
  /\ writers[2].kind = "set_setting" /\ writers[2].pc = "done" /\ ~writers[2].unsaved
  /\ IsSnapshot(disk)
  /\ disk.roles[<<StoreChat, 2>>] = "admin"
  /\ disk.settings[StoreChat].block_links
  /\ disk = Snapshot(settings, whitelist, roles, warns, activity, meta)

\* ------------------------------------------------ the rate windows
\* a window as the claim describes it: ordered by time, and nothing in it
\* older than the window size before its newest, last appended, timestamp
WellFormed(dq, w) ==
  /\ \A i, j \in 1..Len(dq) : i < j => dq[i] <= dq[j]
  /\ \A i \in 1..Len(dq) : dq[Len(dq)] - dq[i] <= w

\* C35 as stated: after every record step on a rate window, every timestamp
\* remaining in that window is no older than the window size before the
\* timestamp just appended, and the window is ordered by time, also when
\* several messages of the same user take their timestamp before a
\* membership lookup and complete the lookup out of arrival order.
C35_Original ==
  \A k \in Keys :
    /\ WellFormed(msg_times[k], settings[k[1]].flood_window_sec)
    /\ WellFormed(sticker_times[k], settings[k[1]].media_window_sec)
    /\ WellFormed(gif_times[k], settings[k[1]].media_window_sec)

\* ------------------------------------------------ the debounced flush
\* DATA["activity"] holds an update that the file does not
Unflushed == ~IsSnapshot(disk) \/ disk.activity # activity

Sleeping == {i \in 1..Len(save_task) : save_task[i] = "sleeping"}

\* no task is inside save_data
NoSave == \A x \in TaskIds : PcOf(x) \notin {"open", "dump", "replace", "release"}

\* an activity update is made while no save_data is under way and leaves a
\* _delayed task that has not begun its save; a save_data that reaches
\* os.replace writes all of DATA
C36_Step ==
  /\ activity' # activity => NoSave /\ Sleeping' # {}
  /\ \A x \in TaskIds :
       SaveWrites(x) =>
         disk' = Snapshot(settings, whitelist, roles, warns, activity, meta)

C37_Step ==
  \A t \in 1..MaxCmds :
    RoleCmdStep(t) /\ ROLE_RANK(EffectiveNow(cmds[t].cid, cmds[t].target))
                        >= ROLE_RANK(EffectiveNow(cmds[t].cid, cmds[t].actor))
    => roles'[<<cmds[t].cid, cmds[t].target>>] = roles[<<cmds[t].cid, cmds[t].target>>]

C37_Original == [][C37_Step]_vars

\* ------------------------------------------------ kick: ban, then unban
\* the sweep of job j is done with the user of entry i of its trace
DoneWith(j, i) ==
  ~(Sweeping(j) /\ Cur(j) = <<jobs[j].trace[i].cid, jobs[j].trace[i].uid>>)

\* C38 as stated: in kick mode a user is never left banned: whenever the
\* ban call for a user has succeeded, the matching unban has also succeeded
\* by the time the operation is done with that user, including when the
\* unban call fails with a transport error.
C38_Original ==
  \A j \in SweepJobs :
    \A i \in 1..Len(jobs[j].trace) :
      LET e == jobs[j].trace[i]
      IN /\ e.op = "ban" /\ e.out = "ok"
         /\ settings[e.cid].cleanup_mode = "kick"
         /\ DoneWith(j, i)
         => /\ i < Len(jobs[j].trace)
            /\ jobs[j].trace[i + 1] = Step("unban", e.cid, e.uid, "ok")

\* ------------------------------------------------ active again before the ban
\* the ban call of job j is made in this step
BanCall(j) == jobs[j].pc = "ban" /\ jobs'[j] # jobs[j]

\* C39 as stated: the inactivity sweep never removes a user whose last-seen
\* timestamp at the moment of the ban call is at or after the cutoff: a
\* user who posts a message after the sweep enumerated the stale users but
\* before the sweep reaches them is not removed.
C39_Step ==
  \A j \in SweepJobs :
    BanCall(j) => activity[jobs[j].cid][jobs[j].rows[1]]
                    < clock - jobs[j].s.cleanup_days * SweepDay

C39_Original == [][C39_Step]_vars

\* ------------------------------------------------ independence of the windows
\* the messages whose handler takes a step
Movers == {m \in DOMAIN msgs : msgs'[m] # msgs[m]}

KeyOf(t) == <<t.cid, t.uid>>

\* the message a moving handler works on: read at its first step, then the
\* one it holds
Handled(m) == IF msgs[m].pc = "new" THEN msgs'[m] ELSE msgs[m]

\* the branch of moderate_all a message takes (lines 2336, 2358, 2373, 2388)
Category(t) ==
  IF t.mgid # 0 THEN "album"
  ELSE IF t.sticker THEN "sticker"
  ELSE IF t.animation THEN "animation"
  ELSE "message"

\* the category windows of key k that a step changes
WindowsChanged(k) ==
  {"message" : x \in {0} \cap {y \in {0} : msg_times'[k] # msg_times[k]}}
  \cup {"sticker" : x \in {0} \cap {y \in {0} : sticker_times'[k] # sticker_times[k]}}
  \cup {"animation" : x \in {0} \cap {y \in {0} : gif_times'[k] # gif_times[k]}}

\* C40: processing a message of (c, u) leaves the rate windows, the duplicate
\* state and the album state of every other (chat, user) pair unchanged and
\* changes at most the one category window of (c, u) that the message
\* belongs to.
C40_Step ==
  \A k \in Keys :
    /\ (\A m \in Movers : KeyOf(Handled(m)) # k) =>
         /\ msg_times'[k] = msg_times[k]
         /\ sticker_times'[k] = sticker_times[k]
         /\ gif_times'[k] = gif_times[k]
         /\ last_hash'[k] = last_hash[k]
         /\ album_seen'[k] = album_seen[k]
    /\ \A m \in Movers :
         KeyOf(Handled(m)) = k =>
           /\ Cardinality(WindowsChanged(k)) <= 1
           /\ WindowsChanged(k) \subseteq {Category(Handled(m))}
           /\ last_hash'[k] # last_hash[k] => Category(Handled(m)) = "message"
           /\ album_seen'[k] # album_seen[k] => Category(Handled(m)) = "album"

C40_Independent == [][C40_Step]_vars

\* both members have a window of their own, in different categories
C40_Witness ==
  /\ msg_times[<<1, 1>>] # <<>>
  /\ sticker_times[<<1, 1>>] = <<>>
  /\ gif_times[<<1, 1>>] = <<>>
  /\ sticker_times[<<1, 2>>] # <<>>
  /\ gif_times[<<1, 2>>] # <<>>
  /\ msg_times[<<1, 2>>] = <<>>
  /\ album_seen[<<1, 2>>] = <<>>

====
